---- MODULE Spec2Model ----
(***************************************************************************)
(* A model of the client library's stateful components:                    *)
(*   - TransactionBuilder (src/src/core/builders/TransactionBuilder.ts)    *)
(*   - the Solana session manager (src/src/core/Solana.ts)                 *)
(*   - the Action workflow base class (src/unnamed/part_010)               *)
(*   - the field decorator's class metadata (src/src/core/util.ts)         *)
(*   - ProgramObject / InstructionData (src/src/core/ProgramObject.ts)     *)
(*   - CustomInstructionBuilder (src/src/core/builders)                    *)
(*   - resolvePublicKey (src/src/core/util.ts)                             *)
(*   - Query (src/unnamed/part_006)                                        *)
(*   - SystemInstructionBuilder (src/src/core/builders)                    *)
(* Each component has its own next-state relation and specification; the   *)
(* variables of the other components are left unchanged by it.             *)
(***************************************************************************)
EXTENDS Integers, Sequences, FiniteSets, TLC

VARIABLES
    \* ---- TransactionBuilder fields
    state,                \* this.state
    signers,              \* this.signers: a Set<Keypair>, kept in insertion order
    instructionBuilders,  \* this.instructionBuilders
    payer,                \* this.payer
    txInstructions,       \* this.transaction.instructions
    \* ---- TransactionBuilder observations
    ret,                  \* outcome of the most recent call on the builder
    addArgs,              \* the arguments of that call, when it was add()
    sent,                 \* the sendAndConfirmTransaction call it made, if any
    nSubmit,              \* number of sendAndConfirmTransaction calls made
    nExec,                \* number of execute() calls made
    stateBefore,          \* this.state when the most recent call began
    \* ---- Solana (static) fields
    connection,           \* Solana.connection
    configuration,        \* Solana.configuration
    \* ---- Solana observations
    initPending,          \* per caller: the initialize() call it is suspended in
    nOpened,              \* number of Connection objects constructed
    stored,               \* ids assigned to Solana.connection, in order
    nWarn,                \* number of 'Solana already initialized' warnings
    initEv,               \* the most recent initialize() event
    nInitCalls,           \* number of initialize() calls started
    \* ---- Action fields
    isInitialized,        \* this.isInitialized
    signature,            \* this.signature
    \* ---- Action observations
    actPc,                \* per caller: where its perform()/initialize() is suspended
    nSetupByPerform,      \* onInitialize invocations made by perform()
    nSetupByInitialize,   \* onInitialize invocations made by initialize()
    nSetupDone,           \* perform() calls whose onInitialize resolved
    nOnPerform,           \* onPerform invocations
    nPerformCalls,        \* perform() calls started
    nInitializeCalls,     \* initialize() calls started
    overlapped,           \* two perform() calls were in flight at once
    setupFailed,          \* an onInitialize invoked by perform() raised
    actEv,                \* the most recent Action event
    anyOverlap,           \* two calls on the Action were in flight at once
    nInitializeDone,      \* initialize() calls whose onInitialize resolved
    nPerformDone,         \* perform() calls whose onPerform resolved
    lastReturned          \* what the most recently resolved onPerform returned

\* The metadata that the field decorator keeps on class constructors.
VARIABLES
    meta,                 \* class -> the metadata defined on that constructor
    declared,             \* class -> the declarations on it that completed
    attempted,            \* class -> the property names decorated on it
    declEv,               \* the most recent field declaration and its outcome
    metaBefore            \* the metadata before the most recent declaration

\* One instance of a schema-bearing class, serialized and loaded back.
VARIABLES
    inst,                 \* the instance: its tag (if any) and property values
    ser,                  \* what toBuffer() on it gave
    loaded                \* the new instance that load() filled from the bytes

\* One CustomInstructionBuilder.
VARIABLES
    ib,                   \* the builder: program, accounts, dataObject, opCode
    given,                \* the payload passed to Program.instruction()
    dataCalled,           \* data() was called on the builder
    opcodeSet,            \* opcode() stored an opcode on the builder
    acctCalls,            \* the account() calls that returned, in call order
    built,                \* what build() returned, when it was the last call
    ibEv                  \* the most recent call on the builder

\* What Solana.initialize() found when it was last called.
VARIABLES
    lastCall              \* the caller and the configuration before the call

\* The calls of resolvePublicKey.
VARIABLES
    resolveLog            \* each call's argument and outcome, in call order

\* One Query.
VARIABLES
    query,                \* the query: dtype, filters, size, slice, commitment
    qSize,                \* the most recent size() call on it, if any
    qEv,                  \* the most recent call on it
    qSent                 \* the config execute() sent, when it was the last call

\* One SystemInstructionBuilder.
VARIABLES
    sysParams,            \* this.params, in insertion order
    sysFactory,           \* this.systemInstructionFactory
    sysBuild,             \* the build() in flight: its entries, position, params
    sysBuilt,             \* the outcome of the most recent build(), once it ended
    rentQueries,          \* the sizes the rent-exempt minimum was queried for
    sysEv,                \* the most recent call, and the queries issued before it
    sysStaged,            \* the most recent staging call and its arguments
    nBuilds               \* number of build() calls

txVars == <<state, signers, instructionBuilders, payer, txInstructions,
            ret, addArgs, sent, nSubmit, nExec, stateBefore>>
solVars == <<connection, configuration, initPending, nOpened, stored, nWarn,
             initEv, nInitCalls, lastCall>>
actVars == <<isInitialized, signature, actPc, nSetupByPerform,
             nSetupByInitialize, nSetupDone, nOnPerform, nPerformCalls,
             nInitializeCalls, overlapped, setupFailed, actEv,
             anyOverlap, nInitializeDone, nPerformDone, lastReturned>>
schVars == <<meta, declared, attempted, declEv, metaBefore>>
objVars == <<inst, ser, loaded>>
ibVars == <<ib, given, dataCalled, opcodeSet, acctCalls, built, ibEv>>
rpkVars == <<resolveLog>>
qryVars == <<query, qSize, qEv, qSent>>
sysVars == <<sysParams, sysFactory, sysBuild, sysBuilt, rentQueries, sysEv,
            sysStaged, nBuilds>>
vars == <<txVars, solVars, actVars, schVars, objVars, ibVars, rpkVars, qryVars,
          sysVars>>

\* What the actions of one component leave unchanged.
exceptTx == <<solVars, actVars, schVars, objVars, ibVars, rpkVars, qryVars,
    sysVars>>
exceptSol == <<txVars, actVars, schVars, objVars, ibVars, rpkVars, qryVars,
    sysVars>>
exceptAct == <<txVars, solVars, schVars, objVars, ibVars, rpkVars, qryVars,
    sysVars>>
exceptSch == <<txVars, solVars, actVars, objVars, ibVars, rpkVars, qryVars,
    sysVars>>
exceptObj == <<txVars, solVars, actVars, schVars, ibVars, rpkVars, qryVars,
    sysVars>>
exceptIb == <<txVars, solVars, actVars, schVars, objVars, rpkVars, qryVars,
    sysVars>>
exceptRpk == <<txVars, solVars, actVars, schVars, objVars, ibVars, qryVars,
    sysVars>>
exceptQry == <<txVars, solVars, actVars, schVars, objVars, ibVars, rpkVars,
    sysVars>>
exceptSys == <<txVars, solVars, actVars, schVars, objVars, ibVars, rpkVars,
    qryVars>>

(***************************************************************************)
(* Bounds of the model.                                                    *)
(***************************************************************************)
MaxInstr == 2        \* staged instruction builders per TransactionBuilder
MaxExec == 2         \* execute() calls per TransactionBuilder
MaxInitCalls == 3    \* Solana.initialize() calls
MaxActionCalls == 3  \* perform()/initialize() calls on one Action
MaxDecl == 3         \* field declarations, over both classes
MaxAccounts == 2     \* account() calls that return, per instruction builder
MaxResolve == 2      \* resolvePublicKey calls
MaxFilters == 2      \* memcmp filters per Query
MaxBuilds == 2       \* build() calls on the SystemInstructionBuilder

(***************************************************************************)
(* Value domains.                                                          *)
(***************************************************************************)
Null == "null"
Undefined == "undefined"
Keys == {"k1", "k2"}
\* "base" is an instance of the InstructionBuilder base class itself.
Builders == {"base", "b1", "b2"}
Signatures == {"sigA", "sigB"}
NetErrors == {"errRejected", "errTimeout"}
Callers == {"c1", "c2"}

RECURSIVE SeqSum(_)
SeqSum(s) == IF s = <<>> THEN 0 ELSE Len(Head(s).bs) + SeqSum(Tail(s))

Range(s) == {s[i] : i \in 1..Len(s)}
NoDuplicates(s) == \A i, j \in 1..Len(s) : i # j => s[i] # s[j]

(***************************************************************************)
(* TransactionBuilder                                                      *)
(***************************************************************************)
Created == "Created"
Executed == "Executed"
Failed == "Failed"
TransactionState == {Created, Executed, Failed}

\* An argument of add(): a single builder, or an array of builders.
One(b) == [tag |-> "one", bs |-> <<b>>]
Many(a) == [tag |-> "many", bs |-> a]
BuilderArrays == {<<>>} \cup {<<a>> : a \in Builders}
                        \cup {<<a, b>> : a \in Builders, b \in Builders}
AddItems == {One(b) : b \in Builders} \cup {Many(a) : a \in BuilderArrays}
AddArgLists == {<<>>} \cup {<<x>> : x \in AddItems}
                      \cup {<<x, y>> : x \in AddItems, y \in AddItems}
\* The arguments of sign(): any number of keypairs, repeats allowed.
SignArgLists == {<<>>} \cup {<<k>> : k \in Keys}
                       \cup {<<k, l>> : k \in Keys, l \in Keys}

\* The TransactionInstruction a builder's build() resolves to.
Instr(b) == [builtFrom |-> b]
\* The error a failing build() raises.
BuildError(b) == IF b = "base" THEN "override in subclass" ELSE "build failed"

NoReturn == [op |-> "none", arg |-> "-", kind |-> "none", val |-> "none"]
Return(op, arg, v) == [op |-> op, arg |-> arg, kind |-> "return", val |-> v]
Throw(op, arg, e) == [op |-> op, arg |-> arg, kind |-> "throw", val |-> e]
NoSubmission == [instructions |-> <<>>, signers |-> <<>>,
                 reply |-> [ok |-> FALSE, val |-> "none"]]
Replies == [ok : {TRUE}, val : Signatures] \cup [ok : {FALSE}, val : NetErrors]

hasExecuted == state = Executed

\* A faulty variant of PushAll: later arguments end up in front.
RECURSIVE PushAllReversed(_, _)
PushAllReversed(list, args) ==
    IF args = <<>> THEN list
    ELSE PushAllReversed(Head(args).bs \o list, Tail(args))

\* builders.forEach(...) of add(): push a builder, or each element of an array.
RECURSIVE PushAll(_, _)
PushAll(list, args) ==
    IF args = <<>> THEN list
    ELSE LET obj == Head(args)
             next == IF obj.tag = "one"
                     THEN Append(list, obj.bs[1])
                     ELSE list \o obj.bs
         IN PushAll(next, Tail(args))

\* A faulty variant of SetAddAll: an array that keeps repeated keys.
SetAddAllNoDedup(set, keys) == set \o keys

\* signers.forEach((s) => this.signers.add(s)): Set.add keeps the first
\* insertion of a key and ignores its repeats.

RECURSIVE SetAddAll(_, _)
SetAddAll(set, keys) ==
    IF keys = <<>> THEN set
    ELSE SetAddAll(IF Head(keys) \in Range(set) THEN set
                   ELSE Append(set, Head(keys)),
                   Tail(keys))

\* signers[0] of a rest-parameter array: undefined when it is empty.
FirstOf(keys) == IF keys = <<>> THEN Undefined ELSE keys[1]

Add(args) ==
    /\ Len(instructionBuilders) + SeqSum(args) <= MaxInstr
    /\ instructionBuilders' = PushAll(instructionBuilders, args)
    /\ addArgs' = args
    /\ ret' = Return("add", "-", "this")
    /\ sent' = NoSubmission
    /\ UNCHANGED <<state, signers, payer, txInstructions, nSubmit, nExec>>
    /\ stateBefore' = state
    /\ UNCHANGED exceptTx

Sign(keys) ==
    /\ signers' = SetAddAll(signers, keys)
    /\ payer' = IF payer = Null THEN FirstOf(keys) ELSE payer
    /\ ret' = Return("sign", "-", "this")
    /\ addArgs' = <<>>
    /\ sent' = NoSubmission
    /\ UNCHANGED <<state, instructionBuilders, txInstructions, nSubmit, nExec>>
    /\ stateBefore' = state
    /\ UNCHANGED exceptTx

PayerMessage == "a payer must be specified for transaction"
SignersMessage == "transaction must be signed by at least one party"
InstructionsMessage == "cannot execute transaction with no instructions"

\* validate(): the reason the builder cannot be executed, or null.
validate ==
    IF payer = Null THEN PayerMessage
    ELSE IF Len(signers) = 0 THEN SignersMessage
    ELSE IF Len(instructionBuilders) = 0 THEN InstructionsMessage
    ELSE Null

Validate ==
    /\ ret' = Return("validate", "-", validate)
    /\ addArgs' = <<>>
    /\ sent' = NoSubmission
    /\ UNCHANGED <<state, signers, instructionBuilders, payer, txInstructions,
                   nSubmit, nExec>>
    /\ stateBefore' = state
    /\ UNCHANGED exceptTx

\* const signers = Array.from(this.signers), with the payer put in front when
\* the set does not hold it.
ExecuteSigners ==
    IF payer \in Range(signers) THEN signers ELSE <<payer>> \o signers

\* The index of the first builder whose build() is the base class's, or 0.
FirstBase(list) ==
    IF \E i \in 1..Len(list) : list[i] = "base"
    THEN CHOOSE i \in 1..Len(list) :
            list[i] = "base" /\ \A j \in 1..(i - 1) : list[j] # "base"
    ELSE 0

\* The built instructions of the first n builders, in order.
BuiltPrefix(list, n) == [i \in 1..n |-> Instr(list[i])]

\* What sendAndConfirmTransaction needs to resolve: it signs with every
\* signer, so one that is no keypair makes it raise, and a transaction
\* without instructions is not accepted.
CanSucceed(signerArr, instrs) ==
    /\ \A i \in 1..Len(signerArr) : signerArr[i] \in Keys
    /\ instrs # <<>>

\* Faulty variants of StateAfterReply: one forgets to record a failure, the
\* other makes a failed builder fresh again.
StateAfterReplyKeepsState(reply) == IF reply.ok THEN Executed ELSE state
StateAfterReplyResets(reply) == IF reply.ok THEN Executed ELSE Created

\* this.state after sendAndConfirmTransaction resolved or rejected.

StateAfterReply(reply) == IF reply.ok THEN Executed ELSE Failed

\* A faulty variant of StateAfterBuildError: a failed build counts as a
\* failed execution.
StateAfterBuildErrorFailed == Failed

\* this.state after b.build() raised: the loop is outside the try block.
StateAfterBuildError == state

ResultAfterReply(arg, reply) ==
    IF reply.ok THEN Return("execute", arg, reply.val)
    ELSE Throw("execute", arg, reply.val)

\* execute(validate): failAt is the index of the builder whose build() raises
\* (0: none does), reply is what sendAndConfirmTransaction answers.
Execute(doValidate, failAt, reply) ==
    LET arg == IF doValidate THEN "true" ELSE "false"
        n == Len(instructionBuilders)
        fb == FirstBase(instructionBuilders)
    IN
    /\ nExec < MaxExec
    /\ nExec' = nExec + 1
    /\ failAt \in 0..n
    /\ fb # 0 => failAt \in 1..fb
    /\ IF doValidate /\ validate # Null
       THEN /\ ret' = Throw("execute", arg, validate)
            /\ sent' = NoSubmission
            /\ UNCHANGED <<state, txInstructions, nSubmit>>
       ELSE IF failAt # 0
       THEN /\ txInstructions' = txInstructions
                   \o BuiltPrefix(instructionBuilders, failAt - 1)
            /\ ret' = Throw("execute", arg,
                            BuildError(instructionBuilders[failAt]))
            /\ sent' = NoSubmission
            /\ state' = StateAfterBuildError
            /\ UNCHANGED nSubmit
       ELSE /\ txInstructions' = txInstructions
                   \o BuiltPrefix(instructionBuilders, n)
            /\ reply.ok => CanSucceed(ExecuteSigners, txInstructions')
            /\ sent' = [instructions |-> txInstructions',
                        signers |-> ExecuteSigners,
                        reply |-> reply]
            /\ nSubmit' = nSubmit + 1
            /\ state' = StateAfterReply(reply)
            /\ ret' = ResultAfterReply(arg, reply)
    /\ addArgs' = <<>>
    /\ UNCHANGED <<signers, instructionBuilders, payer>>
    /\ stateBefore' = state
    /\ UNCHANGED exceptTx

TxInit ==
    /\ state = Created
    /\ signers = <<>>
    /\ instructionBuilders = <<>>
    /\ payer = Null
    /\ txInstructions = <<>>
    /\ ret = NoReturn
    /\ addArgs = <<>>
    /\ sent = NoSubmission
    /\ nSubmit = 0
    /\ nExec = 0
    /\ stateBefore = Created

TxNext ==
    \/ \E args \in AddArgLists : Add(args)
    \/ \E keys \in SignArgLists : Sign(keys)
    \/ Validate
    \/ \E v \in BOOLEAN, failAt \in 0..MaxInstr + 1, reply \in Replies :
          Execute(v, failAt, reply)

(***************************************************************************)
(* Solana: the process-wide session                                        *)
(***************************************************************************)
RpcUrls == {"http://localhost:8899", "https://devnet"}
Commitments == {"confirmed", "finalized"}
ConfigKeys == {"jsonRpcUrl", "commitment"}
ConfigValues(k) == IF k = "jsonRpcUrl" THEN RpcUrls ELSE Commitments

\* private static configuration = { jsonRpcUrl: ..., commitment: ... }
DefaultConfiguration ==
    [k \in ConfigKeys |->
        IF k = "jsonRpcUrl" THEN "http://localhost:8899" ELSE "confirmed"]

\* The overrides a caller may pass: a value for any subset of the options.
Overrides ==
    UNION {{f \in [D -> RpcUrls \cup Commitments] :
                \A k \in D : f[k] \in ConfigValues(k)} : D \in SUBSET ConfigKeys}
\* The config argument: <<>> is null, <<o>> is the object o.
ConfigArgs == {<<>>} \cup {<<o>> : o \in Overrides}

\* merge(this.configuration, config): the options of config win.
merge(base, over) ==
    [k \in DOMAIN base \cup DOMAIN over |->
        IF k \in DOMAIN over THEN over[k] ELSE base[k]]

\* The value of Solana.connection before any connection is stored.
NoConnection == [id |-> 0, rpcUrl |-> "none"]
\* new Connection(rpcUrl, 'confirmed'): the nth Connection object.
Connection(n, rpcUrl) == [id |-> n, rpcUrl |-> rpcUrl]
isInitializedSession == connection # NoConnection

Idle == [pc |-> "idle", conn |-> NoConnection]
Connecting(c) == [pc |-> "connecting", conn |-> c]

\* A faulty variant of ConfigurationAfter: merges before looking at the
\* connection.
ConfigurationAfterAlwaysMerged(config) ==
    IF config # <<>> THEN merge(configuration, config[1]) ELSE configuration

\* The configuration initialize(config) leaves.
ConfigurationAfter(config) ==
    IF connection = NoConnection /\ config # <<>>
    THEN merge(configuration, config[1])
    ELSE configuration

\* initialize(config), up to the await inside establishConnection.
Initialize(caller, config) ==
    /\ initPending[caller].pc = "idle"
    /\ nInitCalls < MaxInitCalls
    /\ nInitCalls' = nInitCalls + 1
    /\ initEv' = [op |-> "start", caller |-> caller, config |-> config]
    /\ configuration' = ConfigurationAfter(config)
    /\ lastCall' = [caller |-> caller, before |-> configuration]
    /\ IF connection = NoConnection
       THEN /\ nOpened' = nOpened + 1
            /\ initPending' =
                 [initPending EXCEPT ![caller] =
                    Connecting(Connection(nOpened + 1,
                                          configuration'["jsonRpcUrl"]))]
            /\ UNCHANGED nWarn
       ELSE /\ nWarn' = nWarn + 1
            /\ UNCHANGED <<nOpened, initPending>>
    /\ UNCHANGED <<connection, stored>>
    /\ UNCHANGED exceptSol

\* A faulty variant of StoredConnection: looks at the connection again after
\* the await.
StoredConnectionIfNone(caller) ==
    IF connection = NoConnection THEN initPending[caller].conn ELSE connection

\* What this.connection = await this.establishConnection(rpcUrl) stores.
StoredConnection(caller) == initPending[caller].conn

\* connection.getVersion() answers: the assignment to this.connection runs.
Established(caller) ==
    /\ initPending[caller].pc = "connecting"
    /\ connection' = StoredConnection(caller)
    /\ stored' = Append(stored, connection'.id)
    /\ initPending' = [initPending EXCEPT ![caller] = Idle]
    /\ initEv' = [op |-> "established", caller |-> caller, config |-> <<>>]
    /\ UNCHANGED <<configuration, nOpened, nWarn, nInitCalls, lastCall>>
    /\ UNCHANGED exceptSol

\* connection.getVersion() raises: initialize() rejects before the assignment.
EstablishFailed(caller) ==
    /\ initPending[caller].pc = "connecting"
    /\ initPending' = [initPending EXCEPT ![caller] = Idle]
    /\ initEv' = [op |-> "failed", caller |-> caller, config |-> <<>>]
    /\ UNCHANGED <<connection, configuration, nOpened, stored, nWarn,
                   nInitCalls, lastCall>>
    /\ UNCHANGED exceptSol

SolInit ==
    /\ connection = NoConnection
    /\ configuration = DefaultConfiguration
    /\ initPending = [c \in Callers |-> Idle]
    /\ nOpened = 0
    /\ stored = <<>>
    /\ nWarn = 0
    /\ initEv = [op |-> "none", caller |-> "none", config |-> <<>>]
    /\ nInitCalls = 0
    /\ lastCall = [caller |-> "none", before |-> DefaultConfiguration]

SolNext ==
    \/ \E c \in Callers, config \in ConfigArgs : Initialize(c, config)
    \/ \E c \in Callers : Established(c)
    \/ \E c \in Callers : EstablishFailed(c)

(***************************************************************************)
(* Action                                                                  *)
(***************************************************************************)
InPerform(c) == actPc[c] \in {"perform:onInitialize", "perform:onPerform"}
ActionCalls == nPerformCalls + nInitializeCalls

\* A faulty variant of FlagAfterSetup: the flag is never raised.
FlagAfterSetupUnset == isInitialized

\* The value of isInitialized once perform()'s onInitialize has resolved.
FlagAfterSetup == TRUE

\* perform(), up to its first await.
Perform(c) ==
    /\ actPc[c] = "idle"
    /\ ActionCalls < MaxActionCalls
    /\ nPerformCalls' = nPerformCalls + 1
    /\ overlapped' = (overlapped \/ \E d \in Callers : InPerform(d))
    /\ IF ~isInitialized
       THEN /\ actPc' = [actPc EXCEPT ![c] = "perform:onInitialize"]
            /\ nSetupByPerform' = nSetupByPerform + 1
            /\ actEv' = [op |-> "onInitialize", caller |-> c]
            /\ UNCHANGED nOnPerform
       ELSE /\ actPc' = [actPc EXCEPT ![c] = "perform:onPerform"]
            /\ nOnPerform' = nOnPerform + 1
            /\ actEv' = [op |-> "onPerform", caller |-> c]
            /\ UNCHANGED nSetupByPerform
    /\ UNCHANGED <<isInitialized, signature, nSetupByInitialize, nSetupDone,
                   nInitializeCalls, setupFailed>>
    /\ anyOverlap' = (anyOverlap \/ \E d \in Callers : actPc[d] # "idle")
    /\ UNCHANGED <<nInitializeDone, nPerformDone, lastReturned>>
    /\ UNCHANGED exceptAct

\* perform() resumes after onInitialize resolved: sets the flag, begins a
\* transaction and calls onPerform.
PerformSetupDone(c) ==
    /\ actPc[c] = "perform:onInitialize"
    /\ isInitialized' = FlagAfterSetup
    /\ nSetupDone' = nSetupDone + 1
    /\ actPc' = [actPc EXCEPT ![c] = "perform:onPerform"]
    /\ nOnPerform' = nOnPerform + 1
    /\ actEv' = [op |-> "onPerform", caller |-> c]
    /\ UNCHANGED <<signature, nSetupByPerform, nSetupByInitialize,
                   nPerformCalls, nInitializeCalls, overlapped, setupFailed>>
    /\ UNCHANGED <<anyOverlap, nInitializeDone, nPerformDone, lastReturned>>
    /\ UNCHANGED exceptAct

\* onInitialize rejected: perform() rejects with it.
PerformSetupFailed(c) ==
    /\ actPc[c] = "perform:onInitialize"
    /\ actPc' = [actPc EXCEPT ![c] = "idle"]
    /\ setupFailed' = TRUE
    /\ actEv' = [op |-> "performThrew", caller |-> c]
    /\ UNCHANGED <<isInitialized, signature, nSetupByPerform,
                   nSetupByInitialize, nSetupDone, nOnPerform, nPerformCalls,
                   nInitializeCalls, overlapped>>
    /\ UNCHANGED <<anyOverlap, nInitializeDone, nPerformDone, lastReturned>>
    /\ UNCHANGED exceptAct

\* A faulty variant of SignatureAfterPerform: only the first signature is kept.
SignatureAfterPerformKeepsFirst(sig) ==
    IF signature = Null THEN sig ELSE signature

\* What this.signature = await this.onPerform(tx) stores.
SignatureAfterPerform(sig) == sig

\* onPerform resolved with sig: this.signature = sig.
PerformDone(c, sig) ==
    /\ actPc[c] = "perform:onPerform"
    /\ signature' = SignatureAfterPerform(sig)
    /\ actPc' = [actPc EXCEPT ![c] = "idle"]
    /\ actEv' = [op |-> "performReturned", caller |-> c]
    /\ UNCHANGED <<isInitialized, nSetupByPerform, nSetupByInitialize,
                   nSetupDone, nOnPerform, nPerformCalls, nInitializeCalls,
                   overlapped, setupFailed>>
    /\ nPerformDone' = nPerformDone + 1
    /\ lastReturned' = sig
    /\ UNCHANGED <<anyOverlap, nInitializeDone>>
    /\ UNCHANGED exceptAct

\* onPerform rejected: perform() rejects before the assignment.
PerformFailed(c) ==
    /\ actPc[c] = "perform:onPerform"
    /\ actPc' = [actPc EXCEPT ![c] = "idle"]
    /\ actEv' = [op |-> "performThrew", caller |-> c]
    /\ UNCHANGED <<isInitialized, signature, nSetupByPerform,
                   nSetupByInitialize, nSetupDone, nOnPerform, nPerformCalls,
                   nInitializeCalls, overlapped, setupFailed>>
    /\ UNCHANGED <<anyOverlap, nInitializeDone, nPerformDone, lastReturned>>
    /\ UNCHANGED exceptAct

\* initialize(): calls onInitialize whatever the flag says.
ActionInitialize(c) ==
    /\ actPc[c] = "idle"
    /\ ActionCalls < MaxActionCalls
    /\ nInitializeCalls' = nInitializeCalls + 1
    /\ nSetupByInitialize' = nSetupByInitialize + 1
    /\ actPc' = [actPc EXCEPT ![c] = "initialize:onInitialize"]
    /\ actEv' = [op |-> "onInitialize", caller |-> c]
    /\ UNCHANGED <<isInitialized, signature, nSetupByPerform, nSetupDone,
                   nOnPerform, nPerformCalls, overlapped, setupFailed>>
    /\ anyOverlap' = (anyOverlap \/ \E d \in Callers : actPc[d] # "idle")
    /\ UNCHANGED <<nInitializeDone, nPerformDone, lastReturned>>
    /\ UNCHANGED exceptAct

\* The onInitialize of an initialize() call resolved or rejected.
ActionInitializeEnd(c, ok) ==
    /\ actPc[c] = "initialize:onInitialize"
    /\ actPc' = [actPc EXCEPT ![c] = "idle"]
    /\ actEv' = [op |-> IF ok THEN "initializeReturned" ELSE "initializeThrew",
                 caller |-> c]
    /\ UNCHANGED <<isInitialized, signature, nSetupByPerform,
                   nSetupByInitialize, nSetupDone, nOnPerform, nPerformCalls,
                   nInitializeCalls, overlapped, setupFailed>>
    /\ nInitializeDone' = IF ok THEN nInitializeDone + 1 ELSE nInitializeDone
    /\ UNCHANGED <<anyOverlap, nPerformDone, lastReturned>>
    /\ UNCHANGED exceptAct

ActInit ==
    /\ isInitialized = FALSE
    /\ signature = Null
    /\ actPc = [c \in Callers |-> "idle"]
    /\ nSetupByPerform = 0
    /\ nSetupByInitialize = 0
    /\ nSetupDone = 0
    /\ nOnPerform = 0
    /\ nPerformCalls = 0
    /\ nInitializeCalls = 0
    /\ overlapped = FALSE
    /\ setupFailed = FALSE
    /\ actEv = [op |-> "none", caller |-> "none"]
    /\ anyOverlap = FALSE
    /\ nInitializeDone = 0
    /\ nPerformDone = 0
    /\ lastReturned = Null

ActNext ==
    \/ \E c \in Callers : Perform(c)
    \/ \E c \in Callers : PerformSetupDone(c)
    \/ \E c \in Callers : PerformSetupFailed(c)
    \/ \E c \in Callers, sig \in Signatures : PerformDone(c, sig)
    \/ \E c \in Callers : PerformFailed(c)
    \/ \E c \in Callers : ActionInitialize(c)
    \/ \E c \in Callers, ok \in BOOLEAN : ActionInitializeEnd(c, ok)

(***************************************************************************)
(* The field decorator and the metadata it keeps per class                 *)
(***************************************************************************)
\* A class and a subclass of it; metadata lookups on the subclass fall back
\* to the parent when the subclass has no metadata of its own under a key.
Classes == {"Base", "Derived"}
HasParent(k) == k = "Derived"
ParentOf(k) == "Base"

Names == {"a", "b", "c"}

\* A field type is a type name or a pair [type name, length].
Plain(t) == [array |-> FALSE, unit |-> t, len |-> 0]
ArrayOf(t, n) == [array |-> TRUE, unit |-> t, len |-> n]
FieldTypes == {Plain("u8"), Plain("u32"), Plain("String"), ArrayOf("u16", 2)}

\* options.space: absent, or a number.
NoSpace == <<>>
SpaceOptions == {NoSpace, <<-1>>, <<2>>}

\* options.adaptor: absent, or an adaptor with both conversion functions.
NoAdaptor == "none"
FieldAdaptors == {"both"}
AdaptorOptions == {NoAdaptor} \cup FieldAdaptors

\* The metadata of a constructor on which nothing was defined.
NoMetadata ==
    [hasSchema |-> FALSE, fields |-> <<>>, offsets |-> <<>>, sizes |-> <<>>,
     hasSpace |-> FALSE, space |-> 0, hasAdaptors |-> FALSE, adaptors |-> <<>>]

NoDeclaration ==
    [class |-> "none", name |-> "none", type |-> Plain("none"),
     space |-> NoSpace, result |-> "none"]

RECURSIVE SumValues(_)
\* Object.values(f).reduce((a, b) => a + b) for a non-empty object f.
SumValues(f) ==
    IF DOMAIN f = {} THEN 0
    ELSE LET n == CHOOSE n \in DOMAIN f : TRUE
         IN  f[n] + SumValues([x \in DOMAIN f \ {n} |-> f[x]])

\* typeName.toLocaleLowerCase() on the type names of FieldTypes.
toLocaleLowerCase(typeName) ==
    IF typeName = "String" THEN "string" ELSE typeName

\* The size of a primitive type, <<n>>, or <<>> for null.
getSizeOf(typeName) ==
    LET t == toLocaleLowerCase(typeName)
    IN  IF t \in {"u8", "i8", "bool"} THEN <<1>>
        ELSE IF t \in {"u16", "i16"} THEN <<2>>
        ELSE IF t \in {"u32", "i32", "f32"} THEN <<4>>
        ELSE IF t \in {"u64", "i64", "f64", "usize"} THEN <<8>>
        ELSE <<>>

\* null * n is 0 in the array case, so only a type name can give null.
inferFieldSize(fieldDef) ==
    IF ~fieldDef.array THEN getSizeOf(fieldDef.unit)
    ELSE LET unitSize == getSizeOf(fieldDef.unit)
         IN  <<(IF unitSize = <<>> THEN 0 ELSE unitSize[1]) * fieldDef.len>>

\* A faulty variant of GuessedStringSize: one byte per character.
GuessedStringSizeOneByte(typeName) == 8 + Len(typeName)

\* The size guessed for a type name whose size is not known.
GuessedStringSize(typeName) == 8 + 4 * Len(typeName)

\* !options.space is false: a space was given and it is not 0.
SpaceGiven(sp) == sp # NoSpace /\ sp[1] # 0

\* The branch that throws 'could not infer space of field'.
CouldNotInfer(type, sp) ==
    ~SpaceGiven(sp) /\ inferFieldSize(type) = <<>> /\ type.array

\* options.space after the inference.
FieldSpace(type, sp) ==
    IF SpaceGiven(sp) THEN sp[1]
    ELSE IF inferFieldSize(type) # <<>> THEN inferFieldSize(type)[1]
    ELSE GuessedStringSize(type.unit)

\* The constructor whose 'schema' Reflect.getMetadata finds from class k, or
\* k itself when none has one (the decorator then defines it on k).
MetaOwner(m, k) ==
    IF m[k].hasSchema THEN k
    ELSE IF HasParent(k) /\ m[ParentOf(k)].hasSchema THEN ParentOf(k)
    ELSE k

AdaptorsOwner(m, k) ==
    IF m[k].hasAdaptors THEN k
    ELSE IF HasParent(k) /\ m[ParentOf(k)].hasAdaptors THEN ParentOf(k)
    ELSE k

\* Reflect.getMetadata('space', k).
SpaceOf(m, k) ==
    IF m[k].hasSpace THEN m[k].space ELSE m[ParentOf(k)].space

\* if (!schema) { define schema, offsets, sizes and space on k }.
WithSchema(m, k) ==
    IF m[MetaOwner(m, k)].hasSchema THEN m
    ELSE [m EXCEPT ![k] = [@ EXCEPT !.hasSchema = TRUE, !.fields = <<>>,
                                     !.offsets = <<>>, !.sizes = <<>>,
                                     !.hasSpace = TRUE, !.space = 0]]

\* if (!adaptors) { define adaptors on k }.
WithAdaptors(m, k) ==
    IF m[AdaptorsOwner(m, k)].hasAdaptors THEN m
    ELSE [m EXCEPT ![k] = [@ EXCEPT !.hasAdaptors = TRUE, !.adaptors = <<>>]]

\* The metadata after the part of the decorator that runs before the space
\* is looked at: the field is pushed and its adaptor registered.
Registered(m, k, name, type, ad) ==
    LET m1 == WithSchema(m, k)
        m2 == [m1 EXCEPT ![MetaOwner(m1, k)].fields =
                             Append(@, [name |-> name, type |-> type])]
        m3 == WithAdaptors(m2, k)
    IN  IF ad = NoAdaptor THEN m3
        ELSE [m3 EXCEPT ![AdaptorsOwner(m3, k)].adaptors = (name :> ad) @@ @]

\* A faulty variant of NextOffset: the number of fields recorded so far.
NextOffsetCountsFields(fields, sizes) == Cardinality(DOMAIN sizes)

\* The offset given to the field that was just pushed.
NextOffset(fields, sizes) ==
    IF Len(fields) = 1 THEN 0 ELSE SumValues(sizes)

\* reduce() without an initial value throws on an empty array.
ReduceThrows(fields, sizes) == Len(fields) # 1 /\ DOMAIN sizes = {}

\* How field(type, options)(k.prototype, name) ends.
FieldResult(m, k, type, sp) ==
    IF CouldNotInfer(type, sp) \/ FieldSpace(type, sp) < 0 THEN "InvalidInput"
    ELSE IF ReduceThrows(m[MetaOwner(m, k)].fields, m[MetaOwner(m, k)].sizes)
         THEN "TypeError"
    ELSE "ok"

\* The metadata after the offset, the size and the space were recorded.
Recorded(m, k, name, s) ==
    LET o == MetaOwner(m, k)
        off == NextOffset(m[o].fields, m[o].sizes)
        m1 == [m EXCEPT ![o].offsets = (name :> off) @@ @,
                        ![o].sizes = (name :> s) @@ @]
    IN  [m1 EXCEPT ![k].hasSpace = TRUE, ![k].space = SpaceOf(m, k) + s]

NumAttempted == Cardinality(attempted["Base"]) + Cardinality(attempted["Derived"])

\* field(type, {space, adaptor}) applied to property name of class k.  The
\* parent class is defined, with all its fields, before the subclass.
Declare(k, name, type, sp, ad) ==
    /\ NumAttempted < MaxDecl
    /\ name \notin attempted[k]
    /\ ~HasParent(k) => attempted["Derived"] = {}
    /\ LET m == Registered(meta, k, name, type, ad)
           res == FieldResult(m, k, type, sp)
           s == FieldSpace(type, sp)
       IN  /\ meta' = IF res = "ok" THEN Recorded(m, k, name, s) ELSE m
           /\ declared' = IF res = "ok"
                          THEN [declared EXCEPT ![k] =
                                   Append(@, [name |-> name, size |-> s])]
                          ELSE declared
           /\ declEv' = [class |-> k, name |-> name, type |-> type,
                         space |-> sp, result |-> res]
    /\ attempted' = [attempted EXCEPT ![k] = @ \cup {name}]
    /\ metaBefore' = meta
    /\ UNCHANGED exceptSch

SchInit ==
    /\ meta = [k \in Classes |-> NoMetadata]
    /\ declared = [k \in Classes |-> <<>>]
    /\ attempted = [k \in Classes |-> {}]
    /\ declEv = NoDeclaration
    /\ metaBefore = [k \in Classes |-> NoMetadata]

SchNext ==
    \E k \in Classes, name \in Names, type \in FieldTypes,
       sp \in SpaceOptions :
        Declare(k, name, type, sp, NoAdaptor)

(***************************************************************************)
(* ProgramObject and InstructionData: toBuffer() and load()                *)
(***************************************************************************)
\* A property value: a number, or a native object holding one (the kind of
\* value an adaptor converts, like a PublicKey).
Raw(v) == [wrapped |-> FALSE, v |-> v]
Wrapped(v) == [wrapped |-> TRUE, v |-> v]

\* adaptor.onSerialize and adaptor.onDeserialize.
onSerialize(x) == Raw(x.v)
onDeserialize(w) == Wrapped(w.v)

ObjFieldTypes == {Plain("u8"), Plain("u16")}
\* The numbers a populated field of the type may hold.
TypeValues(type) == IF type.unit = "u8" THEN {7, 255} ELSE {7, 300}
\* The routing tag of an InstructionData subclass.
Tags == {3}
\* No tag (the class extends ProgramObject), or the tag of the class.
TagOptions == {<<>>} \cup {<<t>> : t \in Tags}

ThrowsBytes == [ok |-> FALSE, bytes |-> <<>>]
ThrowsVals == [ok |-> FALSE, vals |-> <<>>]

\* The bytes borsh writes for one value: one byte for u8, two bytes in
\* little-endian order for u16; anything but a number in range throws.
SerializeField(type, x) ==
    IF x.wrapped THEN ThrowsBytes
    ELSE IF type.unit = "u8"
         THEN IF x.v \in 0..255 THEN [ok |-> TRUE, bytes |-> <<x.v>>]
              ELSE ThrowsBytes
    ELSE IF x.v \in 0..65535
         THEN [ok |-> TRUE, bytes |-> <<x.v % 256, x.v \div 256>>]
    ELSE ThrowsBytes

RECURSIVE Serialize(_, _)
\* borsh.serialize(schema, data): the fields in schema order.
Serialize(fields, data) ==
    IF fields = <<>> THEN [ok |-> TRUE, bytes |-> <<>>]
    ELSE LET h == SerializeField(Head(fields).type, data[Head(fields).name])
             r == Serialize(Tail(fields), data)
         IN  IF h.ok /\ r.ok THEN [ok |-> TRUE, bytes |-> h.bytes \o r.bytes]
             ELSE ThrowsBytes

FieldWidth(type) == IF type.unit = "u8" THEN 1 ELSE 2

\* The number borsh reads from the bytes of one field.
DeserializeField(type, bytes) ==
    IF type.unit = "u8" THEN bytes[1] ELSE bytes[1] + 256 * bytes[2]

RECURSIVE Deserialize(_, _)
\* borsh.deserializeUnchecked(schema, Cls, data): the fields in schema order;
\* a buffer that ends early throws, bytes left over are ignored.
Deserialize(fields, bytes) ==
    IF fields = <<>> THEN [ok |-> TRUE, vals |-> <<>>]
    ELSE LET w == FieldWidth(Head(fields).type)
         IN  IF Len(bytes) < w THEN ThrowsVals
             ELSE LET v == DeserializeField(Head(fields).type, SubSeq(bytes, 1, w))
                      r == Deserialize(Tail(fields), SubSeq(bytes, w + 1, Len(bytes)))
                  IN  IF r.ok
                      THEN [ok |-> TRUE,
                            vals |-> (Head(fields).name :> Raw(v)) @@ r.vals]
                      ELSE ThrowsVals

\* this.schema.fields and the adaptors map, as seen from class k.
SchemaFields(k) == meta[MetaOwner(meta, k)].fields
AdaptorsOf(k) == meta[AdaptorsOwner(meta, k)].adaptors
FieldNames(k) == {SchemaFields(k)[i].name : i \in 1..Len(SchemaFields(k))}

\* The object handed to borsh when the class has adaptors; reading
\* adaptors[k].onSerialize of a field with no adaptor throws.
Adapted(k, vals) ==
    [n \in FieldNames(k) |->
        IF n \in DOMAIN AdaptorsOf(k) THEN onSerialize(vals[n]) ELSE vals[n]]

\* ProgramObject.toBuffer().
ProgramObjectToBuffer(k, vals) ==
    IF DOMAIN AdaptorsOf(k) # {}
    THEN IF \E n \in FieldNames(k) : n \notin DOMAIN AdaptorsOf(k)
         THEN ThrowsBytes
         ELSE Serialize(SchemaFields(k), Adapted(k, vals))
    ELSE Serialize(SchemaFields(k), vals)

\* InstructionData.toBuffer(): the tag byte, then the fields of this.
InstructionDataToBuffer(k, tag, vals) ==
    IF SchemaFields(k) = <<>> THEN [ok |-> TRUE, bytes |-> <<tag>>]
    ELSE LET r == Serialize(SchemaFields(k), vals)
         IN  IF r.ok THEN [ok |-> TRUE, bytes |-> <<tag>> \o r.bytes]
             ELSE ThrowsBytes

\* The property values of a new instance after load(data).
LoadInto(k, data) ==
    LET raw == Deserialize(SchemaFields(k), data)
    IN  IF ~raw.ok THEN ThrowsVals
        ELSE [ok |-> TRUE,
              vals |-> [n \in DOMAIN raw.vals |->
                           IF n \in DOMAIN AdaptorsOf(k)
                           THEN onDeserialize(raw.vals[n])
                           ELSE raw.vals[n]]]

\* The populated instances of class k: every declared field holds a value of
\* its type, a native object where the field has an adaptor.
Populated(k) ==
    LET typeOf(n) == (CHOOSE i \in 1..Len(SchemaFields(k)) :
                          SchemaFields(k)[i].name = n)
        valuesOf(n) ==
            IF n \in DOMAIN AdaptorsOf(k)
            THEN {Wrapped(v) : v \in TypeValues(SchemaFields(k)[typeOf(n)].type)}
            ELSE {Raw(v) : v \in TypeValues(SchemaFields(k)[typeOf(n)].type)}
        all == UNION {valuesOf(n) : n \in FieldNames(k)}
    IN  {f \in [FieldNames(k) -> all] : \A n \in FieldNames(k) : f[n] \in valuesOf(n)}

\* Every assignment of values to some of the property names.
PropertyValues ==
    UNION {[S -> {Raw(v) : v \in {7, 255, 300}} \cup
                 {Wrapped(v) : v \in {7, 255, 300}}] : S \in SUBSET Names}

NoInstance == <<>>

\* A field declared on the class whose instances are serialized.
ObjDeclare(name, type, ad) ==
    /\ inst = NoInstance
    /\ Declare("Base", name, type, NoSpace, ad)

\* new Cls(source) with a plain object: Cls extends ProgramObject (no tag) or
\* InstructionData (tag).
Construct(tag, vals) ==
    /\ inst = NoInstance
    /\ SchemaFields("Base") # <<>>
    /\ vals \in Populated("Base")
    /\ inst' = <<[tag |-> tag, vals |-> vals]>>
    /\ UNCHANGED <<ser, loaded>>
    /\ UNCHANGED exceptObj

\* instance.toBuffer().
ToBuffer ==
    /\ inst # NoInstance
    /\ ser = <<>>
    /\ ser' = <<IF inst[1].tag = <<>>
                THEN ProgramObjectToBuffer("Base", inst[1].vals)
                ELSE InstructionDataToBuffer("Base", inst[1].tag[1], inst[1].vals)>>
    /\ UNCHANGED <<inst, loaded>>
    /\ UNCHANGED exceptObj

\* The bytes of toBuffer(), without the leading tag byte of a tagged class,
\* loaded into a new instance of the class.
Load ==
    /\ ser # <<>>
    /\ ser[1].ok
    /\ loaded = <<>>
    /\ loaded' = <<LoadInto("Base", IF inst[1].tag = <<>> THEN ser[1].bytes
                                     ELSE Tail(ser[1].bytes))>>
    /\ UNCHANGED <<inst, ser>>
    /\ UNCHANGED exceptObj

ObjInit ==
    /\ inst = NoInstance
    /\ ser = <<>>
    /\ loaded = <<>>

ObjNext ==
    \/ \E name \in Names, type \in ObjFieldTypes, ad \in AdaptorOptions :
           ObjDeclare(name, type, ad)
    \/ \E tag \in TagOptions, vals \in PropertyValues : Construct(tag, vals)
    \/ ToBuffer
    \/ Load

(***************************************************************************)
(* CustomInstructionBuilder, created by Program.instruction()              *)
(***************************************************************************)
\* The values account() is called with: what resolvePublicKey tells apart.
\* A PublicKey is k itself; a Keypair has a publicKey and no key field.
PublicKeyAddress(k) == [kind |-> "PublicKey", key |-> k, publicKey |-> Undefined]
PDAAddress(k) == [kind |-> "PDA", key |-> k, publicKey |-> Undefined]
KeypairAddress(k) == [kind |-> "Keypair", key |-> Undefined, publicKey |-> k]
\* Text or a Buffer that new PublicKey() parses to key k, or rejects when k
\* is Null.
TextAddress(k) == [kind |-> "string", key |-> k, publicKey |-> Undefined]
\* Any other object, with its key field (Null, Undefined or a PublicKey) and
\* its publicKey field.
ObjectAddress(k, pk) == [kind |-> "object", key |-> k, publicKey |-> pk]
\* null or undefined.
NoAddress == [kind |-> "null", key |-> Undefined, publicKey |-> Undefined]

\* A faulty variant of resolvePublicKey: the key field is read before the
\* kind of the value is looked at.
resolvePublicKeyByField(obj) ==
    IF obj.key \in Keys THEN <<obj.key>> ELSE <<>>

\* resolvePublicKey(obj): <<key>>, or <<>> when it throws.
resolvePublicKey(obj) ==
    IF obj.kind = "PublicKey" THEN <<obj.key>>
    ELSE IF obj.kind = "PDA" THEN <<obj.key>>
    ELSE IF obj.kind = "Keypair" THEN <<obj.publicKey>>
    ELSE IF obj.kind = "string"
         THEN IF obj.key \in Keys THEN <<obj.key>> ELSE <<>>
    ELSE IF obj.kind # "null" /\ obj.key \in Keys THEN <<obj.key>>
    ELSE <<>>

AccountAddresses ==
    {PublicKeyAddress("k1"), KeypairAddress("k2"), ObjectAddress(Null, Undefined)}

\* The options argument of account(): left out, or an object whose two
\* fields are each absent or a boolean.
NoOptions == [given |-> FALSE, isSigner |-> Undefined, isWritable |-> Undefined]
Options(isSigner, isWritable) ==
    [given |-> TRUE, isSigner |-> isSigner, isWritable |-> isWritable]
AccountOptions ==
    {NoOptions, Options("true", Undefined), Options(Undefined, "true"),
     Options("false", "true"), Options("true", "true")}

\* options = { isSigner: false, isWritable: false } when left out.
DefaultedOptions(options) ==
    IF options.given THEN options
    ELSE Options("false", "false")

\* flag || false.
OrFalse(flag) == flag = "true"

\* A faulty variant of AccountMetadata: the two flags change places.
AccountMetadataSwapped(key, isSigner, isWritable) ==
    [pubkey |-> key, isSigner |-> isWritable, isWritable |-> isSigner]

\* new AccountMetadata(key, isSigner, isWritable), as build() maps it.
AccountMetadata(key, isSigner, isWritable) ==
    [pubkey |-> key, isSigner |-> isSigner, isWritable |-> isWritable]

\* The payload objects and the bytes their toBuffer() gives.
Payloads == {"P1", "P2"}
PayloadBytes(p) == IF p = "P1" THEN <<7>> ELSE <<1, 2>>

OpcodeInputs == {-1, 0, 1, 255, 256}

\* A faulty variant of OpcodeRejected: 255 is rejected too.
OpcodeRejectedAt255(opCode) == opCode < 0 \/ opCode >= 255

\* if (opCode < 0 || opCode > 255) throw.
OpcodeRejected(opCode) == opCode < 0 \/ opCode > 255

NoBuilder == <<>>
\* The opCode field holds <<n>> for the number n; <<>> stands for null or
\* undefined.
NoOpcode == <<>>
NotBuilt == [built |-> FALSE, programId |-> Null, keys |-> <<>>, data |-> <<>>]
IbEvent(op, n, before, result) ==
    [op |-> op, n |-> n, before |-> before, result |-> result]
NoIbEvent == IbEvent("none", 0, NoOpcode, "none")

\* new CustomInstructionBuilder(program): the field initializers.
NewBuilder ==
    [program |-> "program", accounts |-> <<>>, dataObject |-> Null, opCode |-> <<0>>]

\* program.instruction(data): the constructor takes the program only.
ProgramInstruction(payload) ==
    /\ ib = NoBuilder
    /\ ib' = <<NewBuilder>>
    /\ given' = payload
    /\ ibEv' = IbEvent("instruction", 0, NoOpcode, "ok")
    /\ UNCHANGED <<dataCalled, opcodeSet, acctCalls, built>>
    /\ UNCHANGED exceptIb

\* builder.account(account, options).
Account(account, options) ==
    /\ ib # NoBuilder
    /\ Len(acctCalls) < MaxAccounts
    /\ LET key == resolvePublicKey(account)
           o == DefaultedOptions(options)
       IN  IF key = <<>>
           THEN /\ ibEv' = IbEvent("account", 0, NoOpcode, "InvalidInput")
                /\ UNCHANGED <<ib, acctCalls>>
           ELSE /\ ib' = <<[ib[1] EXCEPT !.accounts =
                              Append(@, AccountMetadata(key[1],
                                                        OrFalse(o.isSigner),
                                                        OrFalse(o.isWritable)))]>>
                /\ acctCalls' = Append(acctCalls,
                                       [account |-> account, options |-> options])
                /\ ibEv' = IbEvent("account", 0, NoOpcode, "ok")
    /\ built' = NotBuilt
    /\ UNCHANGED <<given, dataCalled, opcodeSet>>
    /\ UNCHANGED exceptIb

\* builder.data(obj).
Data(obj) ==
    /\ ib # NoBuilder
    /\ ib' = <<[ib[1] EXCEPT !.dataObject = obj]>>
    /\ dataCalled' = TRUE
    /\ ibEv' = IbEvent("data", 0, NoOpcode, "ok")
    /\ built' = NotBuilt
    /\ UNCHANGED <<given, opcodeSet, acctCalls>>
    /\ UNCHANGED exceptIb

\* builder.opcode(opCode).
Opcode(opCode) ==
    /\ ib # NoBuilder
    /\ IF OpcodeRejected(opCode)
       THEN /\ ibEv' = IbEvent("opcode", opCode, ib[1].opCode, "InvalidInput")
            /\ UNCHANGED <<ib, opcodeSet>>
       ELSE /\ ib' = <<[ib[1] EXCEPT !.opCode = <<opCode>>]>>
            /\ opcodeSet' = TRUE
            /\ ibEv' = IbEvent("opcode", opCode, ib[1].opCode, "ok")
    /\ built' = NotBuilt
    /\ UNCHANGED <<given, dataCalled, acctCalls>>
    /\ UNCHANGED exceptIb

\* The data of the built instruction.  opCode is a number from the field
\* initializer on, so the branch for a null or undefined opCode is not taken.
BuildData(b) ==
    IF b.opCode = NoOpcode
    THEN IF b.dataObject # Null THEN PayloadBytes(b.dataObject) ELSE <<>>
    ELSE IF b.dataObject # Null
         THEN b.opCode \o PayloadBytes(b.dataObject)
         ELSE b.opCode

\* builder.build().
Build ==
    /\ ib # NoBuilder
    /\ built' = [built |-> TRUE, programId |-> ib[1].program,
                 keys |-> ib[1].accounts, data |-> BuildData(ib[1])]
    /\ ibEv' = IbEvent("build", 0, NoOpcode, "ok")
    /\ UNCHANGED <<ib, given, dataCalled, opcodeSet, acctCalls>>
    /\ UNCHANGED exceptIb

IbInit ==
    /\ ib = NoBuilder
    /\ given = Null
    /\ dataCalled = FALSE
    /\ opcodeSet = FALSE
    /\ acctCalls = <<>>
    /\ built = NotBuilt
    /\ ibEv = NoIbEvent

IbNext ==
    \/ \E payload \in Payloads \cup {Null} : ProgramInstruction(payload)
    \/ \E account \in AccountAddresses, options \in AccountOptions :
           Account(account, options)
    \/ \E obj \in Payloads : Data(obj)
    \/ \E opCode \in OpcodeInputs : Opcode(opCode)
    \/ Build

(***************************************************************************)
(* resolvePublicKey                                                        *)
(***************************************************************************)
\* The values resolvePublicKey is called with.
ResolveInputs ==
    {PublicKeyAddress(k) : k \in Keys} \cup {PDAAddress(k) : k \in Keys} \cup
    {KeypairAddress(k) : k \in Keys} \cup {TextAddress(k) : k \in Keys} \cup
    {ObjectAddress(k, Undefined) : k \in Keys} \cup
    {TextAddress(Null), ObjectAddress(Null, Undefined),
     ObjectAddress(Undefined, Undefined), ObjectAddress(Undefined, "k1"),
     NoAddress}

\* resolvePublicKey(obj) is called.
Resolve(obj) ==
    /\ Len(resolveLog) < MaxResolve
    /\ resolveLog' = Append(resolveLog,
                            [obj |-> obj, result |-> resolvePublicKey(obj)])
    /\ UNCHANGED exceptRpk

RpkInit == resolveLog = <<>>

RpkNext == \E obj \in ResolveInputs : Resolve(obj)

(***************************************************************************)
(* Query (src/unnamed/part_006)                                            *)
(***************************************************************************)
\* Text is a sequence of characters.  The base58 alphabet:
Alphabet ==
    <<"1", "2", "3", "4", "5", "6", "7", "8", "9", "A", "B", "C", "D", "E",
      "F", "G", "H", "J", "K", "L", "M", "N", "P", "Q", "R", "S", "T", "U",
      "V", "W", "X", "Y", "Z", "a", "b", "c", "d", "e", "f", "g", "h", "i",
      "j", "k", "m", "n", "o", "p", "q", "r", "s", "t", "u", "v", "w", "x",
      "y", "z">>

RECURSIVE BigEndian(_)
\* The number a byte sequence stands for, first byte most significant.
BigEndian(bytes) ==
    IF bytes = <<>> THEN 0
    ELSE BigEndian(SubSeq(bytes, 1, Len(bytes) - 1)) * 256 + bytes[Len(bytes)]

RECURSIVE Base58Digits(_)
Base58Digits(n) ==
    IF n = 0 THEN <<>>
    ELSE Base58Digits(n \div 58) \o <<Alphabet[(n % 58) + 1]>>

RECURSIVE LeadingOnes(_)
\* One "1" for every leading zero byte.
LeadingOnes(bytes) ==
    IF bytes # <<>> /\ bytes[1] = 0 THEN <<"1">> \o LeadingOnes(Tail(bytes))
    ELSE <<>>

\* b58.encode(bytes).
Base58(bytes) == LeadingOnes(bytes) \o Base58Digits(BigEndian(bytes))

\* The bytes of a PublicKey (shortened to two).
KeyBytes(k) == IF k = "k1" THEN <<0, 9>> ELSE <<3, 200>>

\* The forms of a comparison value.
TargetValue(kind, bytes, n, key, text) ==
    [kind |-> kind, bytes |-> bytes, n |-> n, key |-> key, text |-> text]
BufferValue(bytes) == TargetValue("Buffer", bytes, 0, Null, <<>>)
NumberValue(n) == TargetValue("number", <<>>, n, Null, <<>>)
ArrayValue(bytes) == TargetValue("Array", bytes, 0, Null, <<>>)
KeyValue(k) == TargetValue("PublicKey", <<>>, 0, k, <<>>)
TextValue(text) == TargetValue("string", <<>>, 0, Null, text)
QueryValues ==
    {BufferValue(<<0, 1>>), NumberValue(7), ArrayValue(<<255, 2>>),
     KeyValue("k1"), TextValue(<<"2", "g">>)}
\* The values memcmp() is called with directly.
MemcmpValues == {BufferValue(<<0, 1>>)}

\* Buffer.from(array): every element is taken modulo 256.
BufferFrom(array) == [i \in 1..Len(array) |-> array[i] % 256]

\* The character code of the characters used in text values.
CharCode(c) == IF c = "2" THEN 50 ELSE 103

\* The bytes a comparison value stands for; for text, its characters' codes.
ByteRepresentation(v) ==
    IF v.kind = "Buffer" THEN v.bytes
    ELSE IF v.kind = "number" THEN BufferFrom(<<v.n>>)
    ELSE IF v.kind = "Array" THEN BufferFrom(v.bytes)
    ELSE IF v.kind = "PublicKey" THEN KeyBytes(v.key)
    ELSE [i \in 1..Len(v.text) |-> CharCode(v.text[i])]

\* A faulty variant of MemcmpText: text is encoded like bytes.
MemcmpTextEncodesText(v) == Base58(ByteRepresentation(v))

\* byteStr in memcmp(): base58 of the bytes, or bytes.toString() for any
\* other value, text included.
MemcmpText(v) ==
    IF v.kind = "Buffer" THEN Base58(v.bytes)
    ELSE IF v.kind = "number" THEN Base58(BufferFrom(<<v.n>>))
    ELSE IF v.kind = "Array" THEN Base58(BufferFrom(v.bytes))
    ELSE IF v.kind = "PublicKey" THEN Base58(KeyBytes(v.key))
    ELSE v.text

\* The entries of config.filters.
MemcmpFilter(offset, text) ==
    [kind |-> "memcmp", offset |-> offset, bytes |-> text, dataSize |-> 0]
DataSizeFilter(n) ==
    [kind |-> "dataSize", offset |-> <<>>, bytes |-> <<>>, dataSize |-> n]

QueryFieldNames == {"a", "b"}
QueryFieldTypes == {Plain("u8"), Plain("u32")}
\* The offsets memcmp() is called with directly.
MemcmpOffsets == {4}
\* size(dataSize): <<>> is null (or no argument).
SizeInputs == {<<>>, <<9>>}

NoQuery == <<>>
NoQueryEvent == [op |-> "none", name |-> "none", value |-> NumberValue(0)]
QueryEvent(op, name, value) == [op |-> op, name |-> name, value |-> value]
NotSent == [sent |-> FALSE, filters |-> <<>>, dataSlice |-> <<>>,
            commitment |-> <<>>]

\* Reflect.getMetadata('space', dtype): <<n>>, or <<>> when undefined.
DeclaredSpace(k) ==
    IF meta[k].hasSpace \/ (HasParent(k) /\ meta[ParentOf(k)].hasSpace)
    THEN <<SpaceOf(meta, k)>>
    ELSE <<>>

\* offsets[name]: <<k>>, or <<>> when undefined.
OffsetOfField(k, name) ==
    IF name \in DOMAIN meta[MetaOwner(meta, k)].offsets
    THEN <<meta[MetaOwner(meta, k)].offsets[name]>>
    ELSE <<>>

\* A faulty variant of DataSizeFilterAfter: size(null) is ignored.
DataSizeFilterAfterIgnoresNull(dataSize) ==
    IF dataSize = <<>> /\ query # NoQuery THEN query[1].dataSizeFilter
    ELSE dataSize

\* this.dataSizeFilter = dataSize.
DataSizeFilterAfter(dataSize) == dataSize

\* A field declared on the type the query is bound to.
QueryDeclare(name, type) ==
    /\ query = NoQuery
    /\ Declare("Base", name, type, NoSpace, NoAdaptor)

\* new Query(program, dtype): the size filter is seeded with the space of
\* dtype (an undefined space makes size() use its default, null).
NewQuery ==
    /\ query = NoQuery
    /\ query' = <<[dtype |-> "Base", memcmpFilters |-> <<>>,
                   dataSizeFilter |-> DataSizeFilterAfter(DeclaredSpace("Base")),
                   dataSlice |-> <<>>, commitmentLevel |-> <<>>]>>
    /\ qEv' = QueryEvent("new", "none", NumberValue(0))
    /\ UNCHANGED <<qSize, qSent>>
    /\ UNCHANGED exceptQry

\* query.memcmp(offset, bytes).
Memcmp(offset, bytes) ==
    /\ query # NoQuery
    /\ Len(query[1].memcmpFilters) < MaxFilters
    /\ query' = <<[query[1] EXCEPT !.memcmpFilters =
                      Append(@, MemcmpFilter(<<offset>>, MemcmpText(bytes)))]>>
    /\ qEv' = QueryEvent("memcmp", "none", bytes)
    /\ qSent' = NotSent
    /\ UNCHANGED qSize
    /\ UNCHANGED exceptQry

\* Reflect.getMetadata('offsets', dtype) is defined.
HasOffsets(k) == meta[MetaOwner(meta, k)].hasSchema

\* query.match({name: bytes}); offsets[name] of undefined offsets throws a
\* TypeError.
Match(name, bytes) ==
    /\ query # NoQuery
    /\ Len(query[1].memcmpFilters) < MaxFilters
    /\ IF HasOffsets(query[1].dtype)
       THEN /\ query' = <<[query[1] EXCEPT !.memcmpFilters =
                             Append(@, MemcmpFilter(
                                           OffsetOfField(query[1].dtype, name),
                                           MemcmpText(bytes)))]>>
            /\ qEv' = QueryEvent("match", name, bytes)
       ELSE /\ query' = query
            /\ qEv' = QueryEvent("TypeError", name, bytes)
    /\ qSent' = NotSent
    /\ UNCHANGED qSize
    /\ UNCHANGED exceptQry

\* query.slice(0, 4).
Slice ==
    /\ query # NoQuery
    /\ query' = <<[query[1] EXCEPT !.dataSlice = <<[offset |-> 0, length |-> 4]>>]>>
    /\ qEv' = QueryEvent("slice", "none", NumberValue(0))
    /\ qSent' = NotSent
    /\ UNCHANGED qSize
    /\ UNCHANGED exceptQry

\* query.commitment('finalized').
SetCommitment ==
    /\ query # NoQuery
    /\ query' = <<[query[1] EXCEPT !.commitmentLevel = <<"finalized">>]>>
    /\ qEv' = QueryEvent("commitment", "none", NumberValue(0))
    /\ qSent' = NotSent
    /\ UNCHANGED qSize
    /\ UNCHANGED exceptQry

\* query.size(dataSize).
Size(dataSize) ==
    /\ query # NoQuery
    /\ query' = <<[query[1] EXCEPT !.dataSizeFilter = DataSizeFilterAfter(dataSize)]>>
    /\ qSize' = [called |-> TRUE, arg |-> dataSize]
    /\ qEv' = QueryEvent("size", "none", NumberValue(0))
    /\ qSent' = NotSent
    /\ UNCHANGED exceptQry

\* The config execute() hands to getParsedProgramAccounts.
ExecuteConfig(q) ==
    [sent |-> TRUE,
     filters |-> q.memcmpFilters \o
                 (IF q.dataSizeFilter # <<>>
                  THEN <<DataSizeFilter(q.dataSizeFilter[1])>> ELSE <<>>),
     dataSlice |-> q.dataSlice,
     commitment |-> q.commitmentLevel]

\* query.execute().
QueryExecute ==
    /\ query # NoQuery
    /\ qSent' = ExecuteConfig(query[1])
    /\ qEv' = QueryEvent("execute", "none", NumberValue(0))
    /\ UNCHANGED <<query, qSize>>
    /\ UNCHANGED exceptQry

QryInit ==
    /\ query = NoQuery
    /\ qSize = [called |-> FALSE, arg |-> <<>>]
    /\ qEv = NoQueryEvent
    /\ qSent = NotSent

QryNext ==
    \/ \E name \in QueryFieldNames, type \in QueryFieldTypes :
           QueryDeclare(name, type)
    \/ NewQuery
    \/ \E offset \in MemcmpOffsets, bytes \in MemcmpValues : Memcmp(offset, bytes)
    \/ \E name \in QueryFieldNames, bytes \in QueryValues : Match(name, bytes)
    \/ Slice
    \/ SetCommitment
    \/ \E dataSize \in SizeInputs : Size(dataSize)
    \/ QueryExecute

(***************************************************************************)
(* SystemInstructionBuilder (src/core/builders/InstructionBuilder.ts)      *)
(***************************************************************************)
\* A staged parameter: a literal, a function returning a value, an async
\* function (its call returns a Promise of the value), or the default
\* lamports closure, which queries the rent-exempt minimum for num bytes.
Staged(kind, text, num) == [kind |-> kind, text |-> text, num |-> num]
Param(name, staged) ==
    [name |-> name, kind |-> staged.kind, text |-> staged.text,
     num |-> staged.num]

KeyInputs ==
    {Staged("literal", "k1", 0), Staged("function", "k1", 0),
     Staged("asyncFunction", "k2", 0)}
SeedInputs == {Staged("literal", "seed", 0), Staged("function", "seed", 0)}
\* space, as a fraction num / den.
SpaceInputs ==
    {[num |-> -3, den |-> 2], [num |-> 1, den |-> 1], [num |-> 3, den |-> 2]}
\* lamports: <<>> is null (or no argument).
LamportsInputs ==
    {<<>>, <<Staged("literal", "", 0)>>, <<Staged("function", "", 5)>>}
\* What getMinimumBalanceForRentExemption may answer.
RentResults == {10, 20}

\* Math.ceil(space).
Ceil(space) == (space.num + space.den - 1) \div space.den

\* A faulty variant of SpaceBytes: rounds but does not floor at zero.
SpaceBytesUnfloored(space) == Ceil(space)

\* Math.max(0, Math.ceil(space)).
SpaceBytes(space) == IF Ceil(space) > 0 THEN Ceil(space) ELSE 0

\* if (lamports === null) lamports = async () => query for space bytes.
LamportsParam(lamports, space) ==
    IF lamports = <<>> THEN Staged("rentQuery", "", SpaceBytes(space))
    ELSE lamports[1]

\* What a call v() of a staged function returns.
Returned(p) ==
    IF p.kind = "function" THEN [promise |-> FALSE] ELSE [promise |-> TRUE]

\* A faulty variant of isAsyncFunction: nothing is taken for a Promise.
isAsyncFunctionNever(x) == FALSE

\* x && typeof x.then === 'function' && x[Symbol.toStringTag] === 'Promise'.
isAsyncFunction(x) == x.promise

\* An entry of the computed params object.
Resolved(name, kind, text, num) ==
    [name |-> name, kind |-> kind, text |-> text, num |-> num]

\* The loop of build() stops at entry p to await.
Awaits(p) ==
    p.kind \in {"asyncFunction", "rentQuery"} /\ isAsyncFunction(Returned(p))

\* The entry computed from p without awaiting: a literal as staged, a
\* function's result, or the Promise itself when it is not awaited.
Computed(p) ==
    IF p.kind \in {"literal", "function"}
    THEN Resolved(p.name, "value", p.text, p.num)
    ELSE Resolved(p.name, "promise", p.text, p.num)

\* A query of the rent-exempt minimum for n bytes and, once given, its answer.
RentQuery(n, answer) == [bytes |-> n, answer |-> answer]

RECURSIVE RunLoop(_, _, _, _)
\* The loop of build() from entry i on, up to the next await or the end:
\* the entries computed and the rent queries issued on the way.
RunLoop(entries, i, params, queries) ==
    IF i > Len(entries) THEN
        [i |-> i, params |-> params, queries |-> queries, awaiting |-> FALSE]
    ELSE IF Awaits(entries[i]) THEN
        [i |-> i, params |-> params,
         queries |-> IF entries[i].kind = "rentQuery"
                     THEN Append(queries, RentQuery(entries[i].num, <<>>)) ELSE queries,
         awaiting |-> TRUE]
    ELSE
        RunLoop(entries, i + 1, Append(params, Computed(entries[i])),
                IF entries[i].kind = "rentQuery"
                THEN Append(queries, RentQuery(entries[i].num, <<>>)) ELSE queries)

NoFactory == <<>>
NotBuilding == [active |-> FALSE, entries |-> <<>>, i |-> 0, params |-> <<>>]
NoSystemInstruction ==
    [result |-> "none", factory |-> NoFactory, params |-> <<>>]
NoSystemEvent == [op |-> "none", queries |-> <<>>]
SystemEvent(op, queries) == [op |-> op, queries |-> queries]
NothingStaged ==
    [op |-> "none", space |-> [num |-> 0, den |-> 1], lamports |-> <<>>]
StagedCall(op, space, lamports) ==
    [op |-> op, space |-> space, lamports |-> lamports]

\* return this.systemInstructionFactory!(params): a TypeError without one.
Invoke(factory, params) ==
    IF factory = NoFactory
    THEN [result |-> "TypeError", factory |-> NoFactory, params |-> <<>>]
    ELSE [result |-> "ok", factory |-> factory, params |-> params]

\* builder.createAccount(program, payer, key, space, lamports): no build is
\* awaiting a parameter.
CreateAccount(key, space, lamports) ==
    /\ ~sysBuild.active
    /\ sysFactory' = <<"createAccount">>
    /\ sysParams' = <<Param("fromPubkey", Staged("literal", "payer", 0)),
                      Param("newAccountPubkey", key),
                      Param("programId", Staged("literal", "program", 0)),
                      Param("lamports", LamportsParam(lamports, space)),
                      Param("space", Staged("literal", "", SpaceBytes(space)))>>
    /\ sysEv' = SystemEvent("createAccount", rentQueries)
    /\ sysStaged' = StagedCall("createAccount", space, lamports)
    /\ sysBuilt' = NoSystemInstruction
    /\ UNCHANGED <<sysBuild, rentQueries, nBuilds>>
    /\ UNCHANGED exceptSys

\* builder.createAccountWithSeed(program, payer, seed, key, space, lamports).
CreateAccountWithSeed(seed, key, space, lamports) ==
    /\ ~sysBuild.active
    /\ sysFactory' = <<"createAccountWithSeed">>
    /\ sysParams' = <<Param("fromPubkey", Staged("literal", "payer", 0)),
                      Param("basePubkey", Staged("literal", "payer", 0)),
                      Param("programId", Staged("literal", "program", 0)),
                      Param("newAccountPubkey", key),
                      Param("lamports", LamportsParam(lamports, space)),
                      Param("seed", seed),
                      Param("space", Staged("literal", "", SpaceBytes(space)))>>
    /\ sysEv' = SystemEvent("createAccountWithSeed", rentQueries)
    /\ sysStaged' = StagedCall("createAccountWithSeed", space, lamports)
    /\ sysBuilt' = NoSystemInstruction
    /\ UNCHANGED <<sysBuild, rentQueries, nBuilds>>
    /\ UNCHANGED exceptSys

\* builder.build(), up to its first await or to its return.
SystemBuild ==
    /\ ~sysBuild.active
    /\ nBuilds < MaxBuilds
    /\ nBuilds' = nBuilds + 1
    /\ LET r == RunLoop(sysParams, 1, <<>>, rentQueries) IN
        /\ rentQueries' = r.queries
        /\ IF r.awaiting
           THEN /\ sysBuild' = [active |-> TRUE, entries |-> sysParams,
                                i |-> r.i, params |-> r.params]
                /\ sysBuilt' = NoSystemInstruction
           ELSE /\ sysBuild' = NotBuilding
                /\ sysBuilt' = Invoke(sysFactory, r.params)
    /\ sysEv' = SystemEvent("build", rentQueries)
    /\ UNCHANGED <<sysParams, sysFactory, sysStaged>>
    /\ UNCHANGED exceptSys

\* The awaited Promise is fulfilled: an async function's with its value, the
\* rent query's with the answer of the cluster; build() goes on to its next
\* await or to its return.
AwaitFulfilled(answer) ==
    /\ sysBuild.active
    /\ LET p == sysBuild.entries[sysBuild.i]
           x == IF p.kind = "rentQuery"
                THEN Resolved(p.name, "value", "", answer)
                ELSE Resolved(p.name, "value", p.text, p.num)
           answered == IF p.kind = "rentQuery"
                       THEN [rentQueries EXCEPT ![Len(rentQueries)] =
                                RentQuery(@.bytes, <<answer>>)]
                       ELSE rentQueries
           r == RunLoop(sysBuild.entries, sysBuild.i + 1,
                        Append(sysBuild.params, x), answered) IN
        /\ p.kind = "rentQuery" \/ answer = 10
        /\ rentQueries' = r.queries
        /\ IF r.awaiting
           THEN /\ sysBuild' = [sysBuild EXCEPT !.i = r.i, !.params = r.params]
                /\ sysBuilt' = NoSystemInstruction
           ELSE /\ sysBuild' = NotBuilding
                /\ sysBuilt' = Invoke(sysFactory, r.params)
    /\ UNCHANGED <<sysParams, sysFactory, sysEv, sysStaged, nBuilds>>
    /\ UNCHANGED exceptSys

\* The awaited Promise is rejected: build() rejects and no factory is called.
AwaitRejected ==
    /\ sysBuild.active
    /\ sysBuild' = NotBuilding
    /\ sysBuilt' = [result |-> "rejected", factory |-> NoFactory,
                    params |-> <<>>]
    /\ UNCHANGED <<sysParams, sysFactory, sysEv, sysStaged, rentQueries, nBuilds>>
    /\ UNCHANGED exceptSys

SysInit ==
    /\ sysParams = <<>>
    /\ sysFactory = NoFactory
    /\ sysBuild = NotBuilding
    /\ sysBuilt = NoSystemInstruction
    /\ rentQueries = <<>>
    /\ sysEv = NoSystemEvent
    /\ sysStaged = NothingStaged
    /\ nBuilds = 0

SysNext ==
    \/ \E key \in KeyInputs, space \in SpaceInputs,
          lamports \in LamportsInputs : CreateAccount(key, space, lamports)
    \/ \E seed \in SeedInputs, key \in KeyInputs, space \in SpaceInputs,
          lamports \in LamportsInputs :
           CreateAccountWithSeed(seed, key, space, lamports)
    \/ SystemBuild
    \/ \E answer \in RentResults : AwaitFulfilled(answer)
    \/ AwaitRejected

(***************************************************************************)
(* Specifications: one per component, over a common initial state.         *)
(***************************************************************************)
Init == TxInit /\ SolInit /\ ActInit /\ SchInit /\ ObjInit /\ IbInit /\ RpkInit /\ QryInit /\ SysInit

SpecTransaction == Init /\ [][TxNext]_vars
SpecSolana == Init /\ [][SolNext]_vars
SpecAction == Init /\ [][ActNext]_vars
SpecSchema == Init /\ [][SchNext]_vars
SpecObject == Init /\ [][ObjNext]_vars
SpecInstruction == Init /\ [][IbNext]_vars
SpecResolve == Init /\ [][RpkNext]_vars
SpecQuery == Init /\ [][QryNext]_vars
SpecSystem == Init /\ [][SysNext]_vars

(***************************************************************************)
(* Properties of TransactionBuilder (checked under SpecTransaction)        *)
(***************************************************************************)
\* A step in which execute() reached sendAndConfirmTransaction.
Submits == nSubmit' = nSubmit + 1
\* A step that is an execute(true) call.
ExecutesValidating == nExec' = nExec + 1 /\ ret'.arg = "true"
\* The builder lacks a payer keypair, a signer or an instruction builder.
MissingPrecondition ==
    payer \notin Keys \/ signers = <<>> \/ instructionBuilders = <<>>
\* Array arguments flattened in place.
RECURSIVE Flattened(_)
Flattened(args) ==
    IF args = <<>> THEN <<>> ELSE Head(args).bs \o Flattened(Tail(args))

\* C1: when the submission made by execute() succeeds, the state becomes
\* Executed and execute() returns the signature the network answered; when it
\* fails, the state becomes Failed and execute() raises the network's error.
C1_ExecuteOutcome ==
    [][Submits =>
         /\ sent'.reply.ok =>
              /\ state' = Executed
              /\ ret' = Return("execute", ret'.arg, sent'.reply.val)
         /\ ~sent'.reply.ok =>
              /\ state' = Failed
              /\ ret' = Throw("execute", ret'.arg, sent'.reply.val)]_vars

\* C1 witness: an execute() whose submission failed has left the builder
\* Failed and raised the network's error.
C1_Witness ==
    /\ sent # NoSubmission
    /\ ~sent.reply.ok
    /\ state = Failed
    /\ ret = Throw("execute", "true", "errTimeout")

\* C2 as claimed: the state starts as Created and every change of the state
\* leaves Created; Executed and Failed never change again.
C2_TerminalStates ==
    /\ state = Created
    /\ [][state' # state => state = Created]_vars

\* C2 as amended: the state starts as Created; it changes only in an
\* execute() that submitted, and then to Executed or Failed by the outcome of
\* that submission (never back to Created); Executed and Failed are not
\* final, a later execute() moves one to the other.
C2_Amended ==
    /\ state = Created
    /\ [][state' # state =>
            /\ Submits
            /\ state' = (IF sent'.reply.ok THEN Executed ELSE Failed)]_vars

\* C2 witness: a second execute() has moved a Failed builder to Executed.
C2_Witness ==
    /\ stateBefore = Failed
    /\ state = Executed
    /\ nSubmit = 2

\* C3: on a Created builder without a payer, a signer or an instruction
\* builder, execute(true) raises validate()'s reason, builds nothing, submits
\* nothing and leaves the state Created.
C3_ExecuteRejectsInvalid ==
    [][ExecutesValidating /\ state = Created /\ MissingPrecondition =>
         /\ validate # Null
         /\ ret' = Throw("execute", "true", validate)
         /\ txInstructions' = txInstructions
         /\ nSubmit' = nSubmit
         /\ state' = Created]_vars

\* C4: add() appends its builders in argument order, arrays flattened in
\* place, and the transaction the first execute() submits holds exactly the
\* built instruction of each added builder, in that order.
C4_SubmittedInAddOrder ==
    [][/\ ret'.op = "add" =>
            instructionBuilders' = instructionBuilders \o Flattened(addArgs')
       /\ Submits /\ nExec = 0 =>
            sent'.instructions =
                [i \in 1..Len(instructionBuilders) |->
                    Instr(instructionBuilders[i])]]_vars

\* C4 witness: the first execute() has submitted two distinct instructions.
C4_Witness ==
    /\ nExec = 1
    /\ sent.instructions = <<Instr("b2"), Instr("b1")>>

\* C7: once a signing key has been added, the payer is the first key added.
C7_PayerIsFirstSigner == signers # <<>> => payer = signers[1]

\* C8: the signers of every submission hold the payer and no key twice.
C8_SubmittedSigners ==
    sent # NoSubmission =>
        /\ payer \in Range(sent.signers)
        /\ NoDuplicates(sent.signers)

\* C8 witness: a submission signed by two keys, the payer among them.
C8_Witness ==
    /\ sent # NoSubmission
    /\ payer \in Keys
    /\ Len(sent.signers) = 2

\* C9: validate() returns no value exactly when a payer keypair is set, the
\* signer set is non-empty and the instruction list is non-empty.
C9_ValidateAcceptsExactlyValid ==
    ret.op = "validate" => (ret.val = Null <=> ~MissingPrecondition)

(***************************************************************************)
(* Properties of Solana.initialize (checked under SpecSolana)              *)
(***************************************************************************)
\* A step in which an initialize() call begins.
StartsInitialize == nInitCalls' = nInitCalls + 1

\* C5: an initialize(config) call that begins once a connection is stored
\* opens no connection and leaves the connection and the configuration as
\* they were.
C5_InitializeIdempotent ==
    [][StartsInitialize /\ connection # NoConnection =>
         /\ connection' = connection
         /\ configuration' = configuration
         /\ nOpened' = nOpened
         /\ initPending' = initPending]_vars

\* C5 witness: an initialize() with overrides that would change the
\* configuration has just been answered with the warning.
C5_Witness ==
    /\ connection # NoConnection
    /\ nWarn >= 1
    /\ initEv.op = "start"
    /\ initPending[initEv.caller].pc = "idle"
    /\ initEv.config # <<>>
    /\ merge(configuration, initEv.config[1]) # configuration

\* C6: every initialize() that begins while no connection is stored opens a
\* connection, whether or not another call is still establishing one, and
\* each call that completes stores its own connection over the current one.
C6_ConcurrentInitialize ==
    [][/\ StartsInitialize /\ connection = NoConnection =>
            /\ nOpened' = nOpened + 1
            /\ initPending'[initEv'.caller].pc = "connecting"
       /\ Len(stored') = Len(stored) + 1 =>
            /\ connection' = initPending[initEv'.caller].conn
            /\ connection'.id # connection.id]_vars

\* C6 witness: two connections were opened and stored one after the other;
\* the later one replaced the earlier.
C6_Witness ==
    /\ nOpened >= 2
    /\ Len(stored) = 2
    /\ stored[1] # stored[2]
    /\ connection.id = stored[2]

(***************************************************************************)
(* Properties of Action (checked under SpecAction)                         *)
(***************************************************************************)
\* C10: while perform() calls do not overlap and onInitialize does not fail,
\* the first perform() and no other invokes onInitialize, and onPerform is
\* invoked only once onInitialize has completed.
C10_SetupOnFirstPerformOnly ==
    ~overlapped /\ ~setupFailed =>
        /\ nPerformCalls >= 1 => nSetupByPerform = 1
        /\ nOnPerform >= 1 => isInitialized /\ nSetupDone = 1
        /\ \A c \in Callers : actPc[c] = "perform:onPerform" => isInitialized

\* C10 witness: two sequential perform() calls, one setup.
C10_Witness ==
    /\ ~overlapped
    /\ ~setupFailed
    /\ nPerformCalls >= 2
    /\ nOnPerform = 2
    /\ nSetupByPerform = 1

\* C11: while the calls on an Action do not overlap, onInitialize completes at
\* most once over all initialize() and perform() calls, and exactly once
\* before any onPerform is invoked.
C11_SetupExactlyOnce ==
    ~anyOverlap =>
        /\ nSetupDone + nInitializeDone <= 1
        /\ nOnPerform >= 1 => nSetupDone + nInitializeDone = 1

\* C12: the signature is null until a perform() has completed, and from then
\* on it is what the most recently completed onPerform returned; a perform()
\* that raises leaves it as it was.
C12_SignatureIsLastReturned ==
    /\ nPerformDone = 0 => signature = Null
    /\ nPerformDone >= 1 => signature = lastReturned /\ signature \in Signatures

\* C12 witness: after two completed perform() calls with different results a
\* third perform() raised, and the signature is still the second result.
C12_Witness ==
    /\ nPerformDone = 2
    /\ actEv.op = "performThrew"
    /\ nOnPerform = 3
    /\ signature = "sigB"

(***************************************************************************)
(* Properties of the field decorator (checked under SpecSchema)            *)
(***************************************************************************)
\* The sizes of the first n completed declarations on class k, added up.
RECURSIVE DeclaredSum(_, _)
DeclaredSum(k, n) ==
    IF n = 0 THEN 0 ELSE declared[k][n].size + DeclaredSum(k, n - 1)

\* Every declaration so far was made on class k.
OnlyClass(k) == \A j \in Classes \ {k} : attempted[j] = {}

\* C13: when all declarations are on one class, the offset recorded for its
\* Nth declared field is the sum of the sizes recorded for the N-1 fields
\* declared before it, and the class's space is the sum of all recorded sizes.
C13_OffsetsAreRunningSums ==
    \A k \in Classes :
        OnlyClass(k) /\ declared[k] # <<>> =>
            /\ \A i \in 1..Len(declared[k]) :
                   /\ declared[k][i].name \in DOMAIN meta[k].offsets
                   /\ meta[k].offsets[declared[k][i].name] = DeclaredSum(k, i - 1)
                   /\ meta[k].sizes[declared[k][i].name] = declared[k][i].size
            /\ meta[k].space = DeclaredSum(k, Len(declared[k]))

\* C13 witness: u8, u32, u8 declared with no explicit space give offsets
\* 0, 1, 5 and space 6.
C13_Witness ==
    /\ meta["Base"].fields = <<[name |-> "a", type |-> Plain("u8")],
                               [name |-> "b", type |-> Plain("u32")],
                               [name |-> "c", type |-> Plain("u8")]>>
    /\ declared["Base"] = <<[name |-> "a", size |-> 1],
                            [name |-> "b", size |-> 4],
                            [name |-> "c", size |-> 1]>>
    /\ meta["Base"].offsets = ("a" :> 0) @@ ("b" :> 1) @@ ("c" :> 5)
    /\ meta["Base"].space = 6

\* A 'String' field declared with no explicit space.
StringWithoutSpace ==
    declEv.type = Plain("String") /\ declEv.space = NoSpace

\* C14: declaring a 'String' field with no explicit space raises InvalidInput.
C14_StringWithoutSpaceRaises ==
    StringWithoutSpace => declEv.result = "InvalidInput"

\* C14, amended: declaring a 'String' field with no explicit space does not
\* raise InvalidInput; the size is guessed as 8 + 4 * 6 = 32 bytes and, when
\* the declaration completes, recorded as the field's size.
C14_Amended ==
    StringWithoutSpace =>
        /\ declEv.result # "InvalidInput"
        /\ declEv.result = "ok" =>
               meta[MetaOwner(meta, declEv.class)].sizes[declEv.name] = 32

\* C14 witness: such a declaration completed.
C14_Witness ==
    StringWithoutSpace /\ declEv.result = "ok"

(***************************************************************************)
(* Properties of toBuffer() and load() (checked under SpecObject)          *)
(***************************************************************************)
\* Some fields of the class have an adaptor and others have none.
MixedAdaptors ==
    /\ \E n \in FieldNames("Base") : n \in DOMAIN AdaptorsOf("Base")
    /\ \E n \in FieldNames("Base") : n \notin DOMAIN AdaptorsOf("Base")

\* C15: toBuffer() of a populated instance succeeds, and loading its bytes
\* (without the tag byte of a tagged class) into a new instance gives every
\* declared field a value equal to the original.
C15_RoundTrip ==
    /\ ser # <<>> => ser[1].ok
    /\ loaded # <<>> =>
           /\ loaded[1].ok
           /\ \A n \in FieldNames("Base") :
                  /\ n \in DOMAIN loaded[1].vals
                  /\ loaded[1].vals[n] = inst[1].vals[n]

\* C16: ProgramObject.toBuffer() on a class with adapted and unadapted fields
\* succeeds, encoding each adapted field from its adaptor's serialize result
\* and each other field from its own value.
C16_MixedAdaptorsSerialize ==
    (ser # <<>> /\ inst[1].tag = <<>> /\ MixedAdaptors) =>
        ser[1] = Serialize(SchemaFields("Base"), Adapted("Base", inst[1].vals))

(***************************************************************************)
(* Properties of CustomInstructionBuilder (checked under SpecInstruction)  *)
(***************************************************************************)
\* The bytes of the payload set on the builder, none when there is none.
PayloadOf(b) ==
    IF b.dataObject = Null THEN <<>> ELSE PayloadBytes(b.dataObject)

\* Sequence s ends with sequence t.
EndsWith(s, t) ==
    Len(t) <= Len(s) /\ SubSeq(s, Len(s) - Len(t) + 1, Len(s)) = t

\* C17: the data of a built instruction is the payload's bytes, preceded by
\* the one opcode byte exactly when opcode() stored an opcode on the builder.
C17_OpcodeByteIffSet ==
    built.built =>
        built.data = (IF opcodeSet THEN ib[1].opCode ELSE <<>>) \o PayloadOf(ib[1])

\* C18: opcode(n) with n below 0 or above 255 raises and leaves the stored
\* opcode as it was; with n in 0..255 it returns and n is the stored opcode.
C18_OpcodeRange ==
    ibEv.op = "opcode" =>
        IF ibEv.n < 0 \/ ibEv.n > 255
        THEN ibEv.result = "InvalidInput" /\ ib[1].opCode = ibEv.before
        ELSE ibEv.result = "ok" /\ ib[1].opCode = <<ibEv.n>>

\* C18 witness: opcode(255) was stored and a later opcode(256) raised.
C18_Witness ==
    /\ ibEv = IbEvent("opcode", 256, <<255>>, "InvalidInput")
    /\ ib[1].opCode = <<255>>

\* The entry the claim expects for one account() call.
ExpectedEntry(call) ==
    [pubkey |-> IF call.account.kind = "Keypair" THEN call.account.publicKey
                ELSE call.account.key,
     isSigner |-> call.options.given /\ call.options.isSigner = "true",
     isWritable |-> call.options.given /\ call.options.isWritable = "true"]

\* C19: build() yields one account entry per account() call, in call order,
\* with the flags given in that call, false where a flag was left out.
C19_AccountsInCallOrder ==
    built.built =>
        /\ Len(built.keys) = Len(acctCalls)
        /\ \A i \in 1..Len(acctCalls) : built.keys[i] = ExpectedEntry(acctCalls[i])

\* C19 witness: account(A, {isSigner: true}).account(B, {isWritable: true})
\* built to [A signer only, B writable only].
C19_Witness ==
    /\ built.built
    /\ built.keys = <<[pubkey |-> "k1", isSigner |-> TRUE, isWritable |-> FALSE],
                      [pubkey |-> "k2", isSigner |-> FALSE, isWritable |-> TRUE]>>
    /\ acctCalls[1].options.isWritable = Undefined
    /\ acctCalls[2].options.isSigner = Undefined

\* C20: a builder from Program.instruction(payload) on which data() was not
\* called holds the payload, and its built data contains the payload's bytes;
\* from Program.instruction() with no payload it holds none.
C20_PayloadPreset ==
    (ib # NoBuilder /\ ~dataCalled) =>
        /\ ib[1].dataObject = given
        /\ (built.built /\ given # Null) => EndsWith(built.data, PayloadBytes(given))

(***************************************************************************)
(* Further properties of TransactionBuilder (checked under SpecTransaction)*)
(***************************************************************************)
\* C25: every submitted transaction holds the built instruction of each
\* staged builder exactly once, in add order, also in a repeated execute().
C25_SubmittedOncePerBuilder ==
    [][Submits =>
         sent'.instructions =
             [i \in 1..Len(instructionBuilders) |->
                 Instr(instructionBuilders[i])]]_vars

\* An execute() step in which a build() raised.
BuildRaises ==
    /\ nExec' = nExec + 1
    /\ ret'.kind = "throw"
    /\ ret'.val \in {BuildError(b) : b \in Builders}

\* C26: when a build() raises inside execute(), execute() raises that error,
\* nothing is submitted and the state is what it was: a Created builder is
\* still Created, not Failed.
C26_BuildErrorPropagates ==
    [][BuildRaises =>
         /\ nSubmit' = nSubmit
         /\ sent' = NoSubmission
         /\ state' = state
         /\ state = Created => state' = Created]_vars

\* C26 witness: on a Created builder the second builder's build() raised
\* after the first was built; the state is Created and nothing was submitted.
C26_Witness ==
    /\ ret = Throw("execute", "true", "build failed")
    /\ state = Created
    /\ nSubmit = 0
    /\ Len(txInstructions) = 1
    /\ Len(instructionBuilders) = 2

(***************************************************************************)
(* Further properties of Solana.initialize (checked under SpecSolana)      *)
(***************************************************************************)
\* The initialize() call that began last has failed to connect.
LastCallFails == initEv'.op = "failed" /\ initEv'.caller = lastCall.caller

\* C28: when establishing the connection fails, no connection is stored by
\* the call (a later initialize() finding none connects again), and the
\* configuration is what it was before the call.
C28_FailureRestoresConfiguration ==
    [][LastCallFails =>
         /\ connection' = connection
         /\ configuration' = lastCall.before]_vars

\* C27: over perform() calls alone, overlapping or not, with no failing
\* setup, onInitialize is invoked at most once.
C27_OverlappedSetupOnce ==
    (nInitializeCalls = 0 /\ ~setupFailed) => nSetupByPerform <= 1

(***************************************************************************)
(* Further properties of the field decorator (checked under SpecSchema)    *)
(***************************************************************************)
\* The metadata a lookup from class k finds: the schema field list, the
\* offsets, the sizes and the space.
Visible(m, k) ==
    [fields |-> m[MetaOwner(m, k)].fields,
     offsets |-> m[MetaOwner(m, k)].offsets,
     sizes |-> m[MetaOwner(m, k)].sizes,
     space |-> IF m[k].hasSpace \/ HasParent(k) THEN SpaceOf(m, k) ELSE 0]

\* C29: a declaration with a negative space raises InvalidInput and leaves
\* the class's field list, offsets, sizes and space as they were.
C29_NegativeSpaceLeavesMetadata ==
    (declEv.space # NoSpace /\ declEv.space[1] < 0) =>
        /\ declEv.result = "InvalidInput"
        /\ Visible(meta, declEv.class) = Visible(metaBefore, declEv.class)

\* C30: a declaration on the subclass of a class with declared fields leaves
\* the parent's field list, offsets, sizes and space as they were, and the
\* space of every class is the sum of the sizes recorded for it.
C30_MetadataPerClass ==
    /\ (declEv.class = "Derived" /\ metaBefore["Base"].hasSchema) =>
           Visible(meta, "Base") = Visible(metaBefore, "Base")
    /\ \A k \in Classes :
           meta[k].hasSpace => meta[k].space = SumValues(Visible(meta, k).sizes)

(***************************************************************************)
(* Properties of Query (checked under SpecQuery)                           *)
(***************************************************************************)
\* match({name: v}) on a field the schema records at some offset.
MatchesRecorded(name, v) ==
    Match(name, v) /\ OffsetOfField(query[1].dtype, name) # <<>>

\* C21: match({f: v}) on a field recorded at offset k adds exactly one filter
\* at offset k whose comparison text is the base58 encoding of v's byte
\* representation, for an integer byte, a byte array, a raw buffer, an address
\* and text alike.
C21_MatchEncodesBase58 ==
    [][\A name \in QueryFieldNames, v \in QueryValues :
           MatchesRecorded(name, v) =>
               query'[1].memcmpFilters =
                   Append(query[1].memcmpFilters,
                          MemcmpFilter(OffsetOfField(query[1].dtype, name),
                                       Base58(ByteRepresentation(v))))]_vars

\* C21, amended: match({f: v}) on a field recorded at offset k adds exactly
\* one filter at offset k; its comparison text is the base58 encoding of v's
\* bytes for an integer byte, a byte array, a raw buffer and an address, and
\* the text itself, unchanged, when v is text.
C21_Amended ==
    [][\A name \in QueryFieldNames, v \in QueryValues :
           MatchesRecorded(name, v) =>
               query'[1].memcmpFilters =
                   Append(query[1].memcmpFilters,
                          MemcmpFilter(OffsetOfField(query[1].dtype, name),
                                       IF v.kind = "string" THEN v.text
                                       ELSE Base58(ByteRepresentation(v))))]_vars

\* C21 witness: a second match has added the address k1, whose first byte is
\* zero, at the offset of a field that is not the first.
C21_Witness ==
    /\ qEv.op = "match"
    /\ qEv.value = KeyValue("k1")
    /\ Len(query[1].memcmpFilters) = 2
    /\ query[1].memcmpFilters[2] = MemcmpFilter(<<4>>, <<"1", "A">>)

\* The size filters among the filters sent.
SizeFiltersSent ==
    SelectSeq(qSent.filters, LAMBDA f : f.kind = "dataSize")

\* C22: for a type with a declared space, execute() sends exactly one size
\* filter, the declared space, when size() was never called; exactly one, n,
\* when the last size() call was size(n); and none when it was size(null).
C22_SizeFilter ==
    (qSent.sent /\ DeclaredSpace(query[1].dtype) # <<>>) =>
        SizeFiltersSent =
            IF ~qSize.called
            THEN <<DataSizeFilter(DeclaredSpace(query[1].dtype)[1])>>
            ELSE IF qSize.arg = <<>> THEN <<>>
            ELSE <<DataSizeFilter(qSize.arg[1])>>

\* C22 witness: size(9) and then size(null) were called, filters were added,
\* and execute() sent no size filter.
C22_Witness ==
    /\ qSent.sent
    /\ DeclaredSpace(query[1].dtype) # <<>>
    /\ qSize = [called |-> TRUE, arg |-> <<>>]
    /\ Len(qSent.filters) = 2
    /\ SizeFiltersSent = <<>>

\* C22 witness, default: execute() with no size() call sent the declared space.
C22_WitnessDefault ==
    /\ qSent.sent
    /\ ~qSize.called
    /\ SizeFiltersSent = <<DataSizeFilter(5)>>

(***************************************************************************)
(* Properties of SystemInstructionBuilder (checked under SpecSystem)       *)
(***************************************************************************)
\* The most recent call is a build() that returned an instruction.
SystemBuilt == sysEv.op = "build" /\ sysBuilt.result = "ok"

\* The entry called name among the entries es.
EntryOf(es, name) == es[CHOOSE i \in 1..Len(es) : es[i].name = name]

\* Every staged parameter was resolved before the factory was invoked: the
\* params handed to it hold, in staging order, a plain value for each
\* parameter, its literal, its function's result or its awaited result.
AllResolved ==
    /\ sysBuilt.factory = sysFactory
    /\ Len(sysBuilt.params) = Len(sysParams)
    /\ \A i \in 1..Len(sysParams) :
           /\ sysBuilt.params[i].name = sysParams[i].name
           /\ sysBuilt.params[i].kind = "value"
           /\ sysParams[i].kind # "rentQuery" =>
                  /\ sysBuilt.params[i].text = sysParams[i].text
                  /\ sysBuilt.params[i].num = sysParams[i].num

\* C23: staging an account creation issues no rent-exemption query.  When no
\* lamports were given, a build() that returns has issued exactly one query,
\* for max(0, ceil(space)) bytes, and its answer is the lamports parameter;
\* when lamports were given, the build() has issued no query and the lamports
\* parameter is the number given.  In both cases the factory was invoked with
\* every staged parameter resolved.
C23_RentResolvedAtBuild ==
    /\ sysEv.op \in {"createAccount", "createAccountWithSeed"} =>
           rentQueries = sysEv.queries
    /\ SystemBuilt =>
           /\ AllResolved
           /\ EntryOf(sysBuilt.params, "space").num
                  = (IF Ceil(sysStaged.space) > 0
                     THEN Ceil(sysStaged.space) ELSE 0)
           /\ IF sysStaged.lamports = <<>>
              THEN \E answer \in RentResults :
                       /\ rentQueries =
                              Append(sysEv.queries,
                                     RentQuery(IF Ceil(sysStaged.space) > 0
                                               THEN Ceil(sysStaged.space)
                                               ELSE 0, <<answer>>))
                       /\ EntryOf(sysBuilt.params, "lamports").num = answer
              ELSE /\ rentQueries = sysEv.queries
                   /\ EntryOf(sysBuilt.params, "lamports").num
                          = sysStaged.lamports[1].num

\* C23 witness: a second build() of an account staged at a seed with a
\* negative space, an awaited key and no lamports returned, after each build
\* queried the minimum for 0 bytes; the second answer, 20, is the lamports.
C23_Witness ==
    /\ SystemBuilt
    /\ sysStaged = StagedCall("createAccountWithSeed",
                              [num |-> -3, den |-> 2], <<>>)
    /\ EntryOf(sysParams, "newAccountPubkey").kind = "asyncFunction"
    /\ rentQueries = <<RentQuery(0, <<10>>), RentQuery(0, <<20>>)>>
    /\ EntryOf(sysBuilt.params, "lamports").num = 20

(***************************************************************************)
(* Properties of resolvePublicKey (checked under SpecResolve)              *)
(***************************************************************************)
\* C24: a PublicKey resolves to itself, a PDA to its key, a Keypair to its
\* public key, text or bytes that parse to the parsed key, any other object
\* whose key field is a PublicKey to that key; every other value raises.
C24_ResolvePublicKey ==
    \A i \in 1..Len(resolveLog) :
        LET obj == resolveLog[i].obj
            result == resolveLog[i].result
        IN  /\ obj.kind \in {"PublicKey", "PDA"} => result = <<obj.key>>
            /\ obj.kind = "Keypair" => result = <<obj.publicKey>>
            /\ (obj.kind \in {"string", "object"} /\ obj.key \in Keys) =>
                   result = <<obj.key>>
            /\ (obj.kind \in {"string", "object"} /\ obj.key \notin Keys) =>
                   result = <<>>
            /\ obj.kind = "null" => result = <<>>

\* C24 witness: a Keypair was resolved to its public key, and an object
\* whose key is null was rejected.
C24_Witness ==
    /\ Len(resolveLog) = 2
    /\ resolveLog[1] = [obj |-> KeypairAddress("k2"), result |-> <<"k2">>]
    /\ resolveLog[2] = [obj |-> ObjectAddress(Null, Undefined), result |-> <<>>]

====
